---- MODULE Spec2Model ----
(***************************************************************************)
(* The ingestion core of the PSP server: the reverse backfill              *)
(* (server/backfill.py) and the forward sync (server/fetch.py) that page   *)
(* through the groups.io getmessages API (server/api_client.py) and write  *)
(* messages, hashtags, attachments and the singleton sync_state row of the *)
(* PostgreSQL schema (server/core/database.py).                            *)
(*                                                                         *)
(* A run is one psycopg2 connection: conn is what the running connection   *)
(* sees (committed rows plus its own uncommitted writes), db is what is    *)
(* committed.  The two entry points run one at a time.                     *)
(***************************************************************************)
EXTENDS Integers, Sequences, FiniteSets, Bags, TLC

VARIABLES source, static, edited, db, conn, race, b, f, _shutdown_requested, now, hist,
          client, call, api

vars == <<source, static, edited, db, conn, race, b, f, _shutdown_requested, now, hist,
         client, call, api>>

(***************************************************************************)
(* Bounds of the model.                                                    *)
(***************************************************************************)
\* largest message id the remote source ever assigns
MaxId == 4
\* number of runs (the clock ticks once per run)
MaxClock == 2
\* consecutive 429 answers the remote gives to one run
MaxRateLimits == 1
\* number of messages edited at the source after they were posted
MaxEdits == 1
\* longest sender name given to extract_email
MaxNameLen == 6
\* most tokens in a subject given to extract_price
MaxTextLen == 4
\* most attachments of a record given to to_message
MaxAttachments == 2
\* messages in the store the REST layer reads
MaxStored == 3
\* most tokens in the hashtags parameter of a query
MaxParamLen == 3

\* None / SQL NULL
Null == -1

Ids == 1..MaxId

\* batch_size and max_messages a run is started with
BatchSizes == {1, 2}
BackfillCaps == {Null, 0, 3}
FetchCaps == {1, 4}
\* Retry-After values of a 429 answer
RetryAfters == {30}

(***************************************************************************)
(* Helpers.                                                                *)
(***************************************************************************)
Min2(x, y) == IF x <= y THEN x ELSE y

SetMax(S) == CHOOSE x \in S : \A y \in S : y <= x

SetMin(S) == CHOOSE x \in S : \A y \in S : x <= y

Range(s) == {s[i] : i \in 1..Len(s)}

RECURSIVE SortDesc(_)
SortDesc(S) == IF S = {} THEN <<>> ELSE <<SetMax(S)>> \o SortDesc(S \ {SetMax(S)})

Take(s, n) == SubSeq(s, 1, Min2(n, Len(s)))

(***************************************************************************)
(* The remote source: the raw record of a message id.  The API returns     *)
(* null instead of an empty hashtag or attachment list.  A record can be   *)
(* edited at the source after it was posted: its subject and its hashtags  *)
(* change, its id stays.                                                   *)
(***************************************************************************)
\* a JSON list that may be null
NullList == [is_null |-> TRUE, items |-> <<>>]

List(items) == [is_null |-> FALSE, items |-> items]

RawRecord(id) ==
    [id |-> id,
     subject |-> "posted",
     hashtags |-> IF id % 2 = 1
                  THEN List(<<[name |-> "forsale", color |-> "red"]>>)
                  ELSE NullList,
     attachments |-> IF id % 3 = 0
                     THEN List(<<[filename |-> "photo.jpg", attachment_index |-> 1]>>)
                     ELSE NullList]

\* the record after its poster edited it
Edited(raw) ==
    [raw EXCEPT !.subject = "edited",
                !.hashtags = List(<<[name |-> "sold", color |-> "green"]>>)]

\* the record the source serves for id when the ids in edits were edited
Record(id, edits) == IF id \in edits THEN Edited(RawRecord(id)) ELSE RawRecord(id)

\* self.hashtags or []
OrEmpty(list) == IF list.is_null THEN <<>> ELSE list.items

\* to_message that keeps the index the source gave to an attachment
to_message_source_index(raw) ==
    [id |-> raw.id,
     subject |-> raw.subject,
     hashtags |-> [i \in 1..Len(OrEmpty(raw.hashtags)) |->
                     [name |-> OrEmpty(raw.hashtags)[i].name,
                      color_hex |-> OrEmpty(raw.hashtags)[i].color]],
     attachments |-> [i \in 1..Len(OrEmpty(raw.attachments)) |->
                        [attachment_index |-> OrEmpty(raw.attachments)[i].attachment_index,
                         filename |-> OrEmpty(raw.attachments)[i].filename]]]

\* GroupsIOMessage.to_message:
\* Hashtag(name=h.get("name", ""), color_hex=h.get("color")) for h in (self.hashtags or []);
\* Attachment(attachment_index=i, filename=a.get("filename"))
\*     for i, a in enumerate(self.attachments or [])
to_message(raw) ==
    [id |-> raw.id,
     subject |-> raw.subject,
     hashtags |-> [i \in 1..Len(OrEmpty(raw.hashtags)) |->
                     [name |-> OrEmpty(raw.hashtags)[i].name,
                      color_hex |-> OrEmpty(raw.hashtags)[i].color]],
     attachments |-> [i \in 1..Len(OrEmpty(raw.attachments)) |->
                        [attachment_index |-> i - 1,
                         filename |-> OrEmpty(raw.attachments)[i].filename]]]

(***************************************************************************)
(* getmessages, sort_dir = "desc": the records older than the page token   *)
(* (the newest ones without a token), at most limit of them, newest first. *)
(* On the last page the remote may or may not hand out a token, and a full *)
(* last page may still report has_more (the next page is then empty).      *)
(***************************************************************************)
ApiMaxLimit == 100

\* RequestLimit that passes the caller's limit on as it is
RequestLimitUnclamped(limit) == limit

\* "limit": min(limit, 100),  # API max is 100
RequestLimit(limit) == Min2(limit, ApiMaxLimit)

PageIds(src, limit, page_token) ==
    LET cand == IF page_token = Null THEN src ELSE {i \in src : i < page_token}
    IN  Take(SortDesc(cand), RequestLimit(limit))

get_messages(src, edits, limit, page_token) ==
    LET cand == IF page_token = Null THEN src ELSE {i \in src : i < page_token}
        ids == PageIds(src, limit, page_token)
        data == [i \in 1..Len(ids) |-> Record(ids[i], edits)]
        rest == Cardinality(cand) - Len(ids)
        page(more, tok) == [data |-> data, has_more |-> more,
                            next_page_token |-> tok]
    IN  IF ids = <<>> THEN {page(FALSE, Null)}
        ELSE IF rest > 0 THEN {page(TRUE, ids[Len(ids)])}
        ELSE {page(FALSE, Null), page(FALSE, ids[Len(ids)])}
             \cup (IF Len(ids) = limit THEN {page(TRUE, ids[Len(ids)])} ELSE {})

(***************************************************************************)
(* Storage.  messages has id as primary key; hashtags and attachments have *)
(* a serial key only, so equal rows can repeat: all three are bags of rows.*)
(***************************************************************************)
EmptySyncState ==
    [last_fetch_at |-> Null, newest_message_id |-> Null,
     oldest_message_id |-> Null, backfill_page_token |-> Null]

EmptyDb ==
    [messages |-> EmptyBag, hashtags |-> EmptyBag, attachments |-> EmptyBag,
     sync_state |-> EmptySyncState]

\* ids that have a row in messages
StoredIds(view) == {r.id : r \in BagToSet(view.messages)}

\* number of rows of messages
RowCount(view) == BagCardinality(view.messages)

\* ExistingIds of a SELECT that finds no row
ExistingIdsNone(view, message_ids) == {}

\* SELECT id FROM messages WHERE id = ANY(message_ids)
ExistingIds(view, message_ids) == {i \in Range(message_ids) : i \in StoredIds(view)}

\* NewMessages without the filter: every message of the page counts as new
NewMessagesUnfiltered(messages, existing_ids) == messages

\* new_messages = [m for m in messages if m.id not in existing_ids]
NewMessages(messages, existing_ids) ==
    SelectSeq(messages, LAMBDA m : m.id \notin existing_ids)

\* InsertMessageRows with ON CONFLICT (id) DO UPDATE: the stored row takes the new values
RECURSIVE InsertMessageRowsOverwriting(_, _)
InsertMessageRowsOverwriting(rows, messages) ==
    IF messages = <<>> THEN rows
    ELSE LET m == Head(messages)
             others == {r \in BagToSet(rows) : r.id # m.id}
             kept == [r \in others |-> CopiesIn(r, rows)]
         IN  InsertMessageRowsOverwriting(
                 kept (+) SetToBag({[id |-> m.id, subject |-> m.subject]}),
                 Tail(messages))

\* INSERT INTO messages ... ON CONFLICT (id) DO NOTHING, one row after the other
RECURSIVE InsertMessageRows(_, _)
InsertMessageRows(rows, messages) ==
    IF messages = <<>> THEN rows
    ELSE LET m == Head(messages)
             has == \E r \in BagToSet(rows) : r.id = m.id
         IN  InsertMessageRows(IF has THEN rows
                               ELSE rows (+) SetToBag({[id |-> m.id,
                                                        subject |-> m.subject]}),
                               Tail(messages))

\* the rows of a list as a bag (equal rows are kept)
RECURSIVE SeqToBag(_)
SeqToBag(rows) ==
    IF rows = <<>> THEN EmptyBag ELSE SetToBag({Head(rows)}) (+) SeqToBag(Tail(rows))

\* HashtagRows of an insert that leaves the hashtags out
HashtagRowsNone(messages) == EmptyBag

\* hashtag_values = [(m.id, h.name, h.color_hex) for m in messages for h in m.hashtags]
RECURSIVE HashtagRows(_)
HashtagRows(messages) ==
    IF messages = <<>> THEN EmptyBag
    ELSE LET m == Head(messages)
         IN  SeqToBag([i \in 1..Len(m.hashtags) |->
                          [message_id |-> m.id, name |-> m.hashtags[i].name,
                           color_hex |-> m.hashtags[i].color_hex]])
             (+) HashtagRows(Tail(messages))

\* attachment_values = [(m.id, a.attachment_index, ...) for m in messages for a in m.attachments]
RECURSIVE AttachmentRows(_)
AttachmentRows(messages) ==
    IF messages = <<>> THEN EmptyBag
    ELSE LET m == Head(messages)
         IN  SeqToBag([i \in 1..Len(m.attachments) |->
                          [message_id |-> m.id,
                           attachment_index |-> m.attachments[i].attachment_index,
                           filename |-> m.attachments[i].filename]])
             (+) AttachmentRows(Tail(messages))

\* _insert_messages(cur, messages)
_insert_messages(view, messages) ==
    [view EXCEPT !.messages = InsertMessageRows(@, messages),
                 !.hashtags = @ (+) HashtagRows(messages),
                 !.attachments = @ (+) AttachmentRows(messages)]

\* LEAST replaced by a plain assignment of the batch value
LeastOverwrites(x, y) == y

\* PostgreSQL LEAST / GREATEST: NULL arguments are ignored
LEAST(x, y) == IF x = Null THEN y ELSE IF y = Null THEN x ELSE Min2(x, y)

GREATEST(x, y) == IF x = Null THEN y ELSE IF y = Null THEN x ELSE IF x >= y THEN x ELSE y

\* UpdateBackfillState that stores a token one page entry too far
UpdateBackfillStateSkipping(view, next_page_token, message_ids) ==
    [view EXCEPT !.sync_state =
        [@ EXCEPT !.backfill_page_token = next_page_token - 1,
                  !.oldest_message_id = LEAST(@, SetMin(Range(message_ids))),
                  !.newest_message_id = GREATEST(@, SetMax(Range(message_ids)))]]

\* UPDATE sync_state SET backfill_page_token, oldest_message_id, newest_message_id
UpdateBackfillState(view, next_page_token, message_ids) ==
    [view EXCEPT !.sync_state =
        [@ EXCEPT !.backfill_page_token = next_page_token,
                  !.oldest_message_id = LEAST(@, SetMin(Range(message_ids))),
                  !.newest_message_id = GREATEST(@, SetMax(Range(message_ids)))]]

\* UPDATE sync_state SET backfill_page_token = NULL
ClearBackfillToken(view) ==
    [view EXCEPT !.sync_state = [@ EXCEPT !.backfill_page_token = Null]]

\* UpdateFetchState that rewrites the whole row: the backfill bookmarks are lost
UpdateFetchStateWholeRow(view, at, message_ids) ==
    [view EXCEPT !.sync_state =
        [@ EXCEPT !.last_fetch_at = at,
                  !.newest_message_id =
                      GREATEST(@, IF message_ids # <<>> THEN message_ids[1] ELSE Null),
                  !.oldest_message_id = Null,
                  !.backfill_page_token = Null]]

\* UPDATE sync_state SET last_fetch_at, newest_message_id = GREATEST(newest_message_id, %s)
UpdateFetchState(view, at, message_ids) ==
    [view EXCEPT !.sync_state =
        [@ EXCEPT !.last_fetch_at = at,
                  !.newest_message_id =
                      GREATEST(@, IF message_ids # <<>> THEN message_ids[1] ELSE Null)]]

\* LoadBackfillToken that ignores the stored token: every run starts at the newest message
LoadBackfillTokenFresh(view) == Null

\* SELECT backfill_page_token FROM sync_state WHERE id = 1
LoadBackfillToken(view) == view.sync_state.backfill_page_token

\* Python truth value of an int | None
Truthy(x) == x # Null /\ x # 0

(***************************************************************************)
(* What the properties below look back at: the last two page requests of   *)
(* the current run and the last batch a run processed.                     *)
(***************************************************************************)
NoRequest ==
    [by |-> "none", n |-> 0, limit |-> 0, page_token |-> Null, outcome |-> "none",
     retry_after |-> 0]

\* previously: the ids of the batch that had a row before it was processed;
\* before: the sync_state row the batch found; n: the request that brought the page
NoBatch ==
    [by |-> "none", n |-> 0, ids |-> <<>>, previously |-> {}, new_ids |-> {},
     inserted |-> 0, rows_added |-> 0, next_page_token |-> Null, has_more |-> FALSE,
     dry_run |-> FALSE, before |-> EmptySyncState]

\* start_rows: the committed message rows when the run began;
\* max_new: the largest id the run found new so far
\* failed: the ids whose INSERT raised
\* interrupted: where the backfill loop was when the shutdown signal arrived
\* count_requests: the limit=1 requests for the total count the run made before its
\* loop (req and prev are the requests of the loop)
\* first_token: the backfill_page_token a backfill run loaded when it began
NoHist ==
    [req |-> NoRequest, prev |-> NoRequest, batch |-> NoBatch, start_rows |-> 0,
     max_new |-> Null, failed |-> {}, interrupted |-> "none", count_requests |-> 0,
     first_token |-> Null]

Failed(h, view, response) ==
    [h EXCEPT !.failed = {response.data[i].id : i \in 1..Len(response.data)}
                         \ {r.id : r \in BagToSet(view.messages)}]

Started(committed) == [NoHist EXCEPT !.start_rows = BagCardinality(committed.messages)]

Requested(h, by, limit, page_token, outcome, retry_after) ==
    [h EXCEPT !.prev = h.req,
              !.req = [by |-> by, n |-> h.req.n + 1, limit |-> limit,
                       page_token |-> page_token, outcome |-> outcome,
                       retry_after |-> retry_after]]

Processed(h, by, message_ids, new_messages, before, after, response, dry_run) ==
    LET new_ids == {new_messages[i].id : i \in 1..Len(new_messages)}
    IN  [h EXCEPT
           !.batch =
              [by |-> by, n |-> h.req.n, ids |-> message_ids,
               previously |-> {i \in {message_ids[k] : k \in 1..Len(message_ids)} :
                                  \E r \in BagToSet(before.messages) : r.id = i},
               new_ids |-> new_ids,
               inserted |-> Len(new_messages),
               rows_added |-> BagCardinality(after.messages)
                              - BagCardinality(before.messages),
               next_page_token |-> response.next_page_token,
               has_more |-> response.has_more, dry_run |-> dry_run,
               before |-> before.sync_state],
           !.max_new = IF new_ids = {} THEN @
                       ELSE IF @ = Null THEN CHOOSE x \in new_ids : \A y \in new_ids : y <= x
                       ELSE LET m == CHOOSE x \in new_ids : \A y \in new_ids : y <= x
                            IN  IF m > @ THEN m ELSE @]

(***************************************************************************)
(* The state of a run.  result is what the last run returned or raised.    *)
(***************************************************************************)
NoResponse == [data |-> <<>>, has_more |-> FALSE, next_page_token |-> Null]

NoResult ==
    [total_new |-> 0, is_complete |-> FALSE, raised |-> "none", dry_run |-> FALSE,
     batches |-> 0]

\* time.sleep(delay) between two backfill requests: delay: float = 5.0
Delay == 5

\* the clock reading of the next run; readings from MaxClock on are not told apart
Tick(t) == IF t < MaxClock THEN t + 1 ELSE t

BackfillIdle ==
    [pc |-> "idle", batch_size |-> 0, max_messages |-> Null, dry_run |-> FALSE,
     page_token |-> Null, total_fetched |-> 0, total_new |-> 0, is_complete |-> FALSE,
     response |-> NoResponse, slept |-> 0, rate_limits |-> 0,
     batches |-> 0, result |-> NoResult]

FetchIdle ==
    [pc |-> "idle", batch_size |-> 0, max_messages |-> 0, dry_run |-> FALSE,
     page_token |-> Null, total_fetched |-> 0, total_new |-> 0, message_ids |-> <<>>,
     response |-> NoResponse, rate_limits |-> 0, batches |-> 0, result |-> NoResult]

\* the exceptions client.get_messages raises: RateLimitError on a 429, APIError on any
\* other status >= 400, requests.RequestException when the transport fails
Exceptions == {"RateLimitError", "APIError", "RequestException"}

\* the rows an open transaction has inserted and not yet committed
EmptyStaged == [messages |-> EmptyBag, hashtags |-> EmptyBag, attachments |-> EmptyBag]

\* what a connection reads (READ COMMITTED): the committed rows and its own staged rows
Seen(committed, staged) ==
    [committed EXCEPT !.messages = @ (+) staged.messages,
                      !.hashtags = @ (+) staged.hashtags,
                      !.attachments = @ (+) staged.attachments]

\* the staged rows of a connection that reads view over the committed rows
Staged(committed, view) ==
    [messages |-> view.messages (-) committed.messages,
     hashtags |-> view.hashtags (-) committed.hashtags,
     attachments |-> view.attachments (-) committed.attachments]

\* two runs at a time, each on its own connection: the existing_ids each one selected
\* for the page it holds and the rows the forward sync has staged (backfill commits
\* in the step that inserts); skipped: the messages of the last INSERT that hit
\* ON CONFLICT
NoRace ==
    [existing_ids |-> [backfill |-> {}, fetch |-> {}], staged |-> EmptyStaged,
     skipped |-> {}]

(***************************************************************************)
(* GroupsIOClient: one call of get_messages.  session.get runs under the   *)
(* urllib3 Retry the session was mounted with: an answer whose status is   *)
(* in status_forcelist, or that has a Retry-After header and a status in   *)
(* RETRY_AFTER_STATUS_CODES while retries are left, is asked for again;    *)
(* when the retries are used up the adapter raises (raise_on_status is not *)
(* turned off), which requests hands on as RetryError, a RequestException. *)
(***************************************************************************)
\* Retry(total=3, ...)
RetryTotal == 3

\* status_forcelist=[500, 502, 503, 504]
StatusForcelist == {500, 502, 503, 504}

\* Retry.RETRY_AFTER_STATUS_CODES (respect_retry_after_header is left at its default)
RetryAfterStatusCodes == {413, 429, 503}

\* response.headers.get("Retry-After", 60)
DefaultRetryAfter == 60

Digits == <<"0", "1", "2", "3", "4", "5", "6", "7", "8", "9">>

DigitValue(c) == (CHOOSE i \in 1..Len(Digits) : Digits[i] = c) - 1

\* int() of a string of decimal digits
RECURSIVE int(_)
int(text) ==
    IF text = <<>> THEN 0
    ELSE 10 * int(SubSeq(text, 1, Len(text) - 1)) + DigitValue(text[Len(text)])

\* RetryAfter that does not read the header
RetryAfterDefaultOnly(header) == DefaultRetryAfter

\* retry_after = int(response.headers.get("Retry-After", 60))
RetryAfter(header) == IF header.is_null THEN DefaultRetryAfter ELSE int(header.items)

\* Retry.is_retry for a GET: total is the number of retries left
is_retry(total, status_code, has_retry_after) ==
    \/ status_code \in StatusForcelist
    \/ total # 0 /\ has_retry_after /\ status_code \in RetryAfterStatusCodes

\* Retry.increment raises MaxRetryError when the new count is exhausted
is_exhausted(total) == total < 0

\* an HTTP answer: status, Retry-After header (seconds in decimal digits, or absent), body
NoAnswer == [status_code |-> 0, retry_after |-> NullList, text |-> ""]

\* how a call ended: the page it returned or the exception it raised
NoOutcome == [kind |-> "none", retry_after |-> 0, status_code |-> 0, message |-> ""]

\* limit: what the caller passed; params: the query of the request; total: retries left;
\* answer: the last answer of the server; response: what session.get returned
NoClient ==
    [pc |-> "idle", limit |-> 0, params |-> [limit |-> 0, page_token |-> Null],
     total |-> 0, answer |-> NoAnswer, response |-> NoAnswer, outcome |-> NoOutcome]

\* the rest of _make_request once session.get has returned response
MakeRequestOutcome(response) ==
    IF response.status_code = 429
    THEN [NoOutcome EXCEPT !.kind = "RateLimitError",
                           !.retry_after = RetryAfter(response.retry_after)]
    ELSE IF response.status_code >= 400
    THEN [NoOutcome EXCEPT !.kind = "APIError", !.status_code = response.status_code,
                           !.message = response.text]
    ELSE [NoOutcome EXCEPT !.kind = "page"]

(***************************************************************************)
(* The record normaliser (models.py).  A str is a sequence of characters,  *)
(* None is NullList; re.search finds the leftmost match.                   *)
(***************************************************************************)
\* the least j in from..Len(s) with s[j] = c, 0 when there is none
Find(s, c, from) ==
    LET js == {j \in from..Len(s) : s[j] = c}
    IN  IF js = {} THEN 0 ELSE SetMin(js)

\* r"<([^>]+@[^>]+)>" matched at position i: the position of the closing bracket,
\* 0 when the pattern does not match there
EmailMatch(s, i) ==
    LET j == Find(s, ">", i + 1)
    IN  IF s[i] = "<" /\ j # 0 /\ (\E k \in (i + 2)..(j - 2) : s[k] = "@") THEN j ELSE 0

\* if not name: return None
\* match = re.search(r"<([^>]+@[^>]+)>", name); return match.group(1) if match else None
extract_email(name) ==
    IF name.is_null \/ name.items = <<>> THEN NullList
    ELSE LET s == name.items
             starts == {i \in 1..Len(s) : EmailMatch(s, i) # 0}
         IN  IF starts = {} THEN NullList
             ELSE List(SubSeq(s, SetMin(starts) + 1, EmailMatch(s, SetMin(starts)) - 1))

(***************************************************************************)
(* extract_price.  The text is a sequence of tokens: a character of the    *)
(* patterns or a whole word; every pattern element consumes one token.     *)
(***************************************************************************)
\* str.lower of a word, as re.IGNORECASE compares it
Lower(w) ==
    CASE w = "Asking" -> "asking"
      [] w = "OBO" -> "obo"
      [] w = "ForSale" -> "forsale"
      [] OTHER -> w

\* \d, [\d,] and \s
DigitTokens == {"5"}

AmountTokens == DigitTokens \cup {","}

SpaceTokens == {" "}

\* a greedy class+ or class* from position i: the last position it consumes, i - 1 when
\* it consumes nothing
RunEnd(s, i, class) ==
    SetMax({j \in (i - 1)..Len(s) : \A k \in i..j : s[k] \in class})

\* r"\$[\d,]+(?:\.\d{2})?" from position i: the last position of the match, 0 for no match
MatchCurrency(s, i) ==
    LET run == RunEnd(s, i + 1, AmountTokens)
    IN  IF s[i] # "$" \/ run < i + 1 THEN 0
        ELSE IF /\ run + 3 <= Len(s) /\ s[run + 1] = "."
                /\ s[run + 2] \in DigitTokens /\ s[run + 3] \in DigitTokens
             THEN run + 3 ELSE run

\* r"asking\s*\$?[\d,]+" from position i
MatchAsking(s, i) ==
    LET sp == RunEnd(s, i + 1, SpaceTokens)
        dollar == IF sp + 1 <= Len(s) /\ s[sp + 1] = "$" THEN sp + 1 ELSE sp
        run == RunEnd(s, dollar + 1, AmountTokens)
    IN  IF Lower(s[i]) # "asking" \/ run < dollar + 1 THEN 0 ELSE run

\* r"[\d,]+\s*(?:dollars|obo)" from position i
MatchAmountWord(s, i) ==
    LET run == RunEnd(s, i, AmountTokens)
        sp == RunEnd(s, run + 1, SpaceTokens)
    IN  IF run < i \/ sp + 1 > Len(s) THEN 0
        ELSE IF Lower(s[sp + 1]) \in {"dollars", "obo"} THEN sp + 1 ELSE 0

Match(pattern, s, i) ==
    CASE pattern = "currency" -> MatchCurrency(s, i)
      [] pattern = "asking" -> MatchAsking(s, i)
      [] pattern = "amount_word" -> MatchAmountWord(s, i)

\* re.search(pattern, text, re.IGNORECASE): the leftmost match, match.group(0)
search(pattern, text) ==
    LET starts == {i \in 1..Len(text) : Match(pattern, text, i) # 0}
    IN  IF starts = {} THEN NullList
        ELSE List(SubSeq(text, SetMin(starts), Match(pattern, text, SetMin(starts))))

\* the list with 'asking' tried before the currency sign
patterns_asking_first == <<"asking", "currency", "amount_word">>

\* patterns = [...], in the order of the list
patterns == <<"currency", "asking", "amount_word">>

\* for pattern in patterns: match = re.search(...); if match: return match.group(0)
RECURSIVE FirstMatch(_, _)
FirstMatch(ps, text) ==
    IF ps = <<>> THEN NullList
    ELSE IF ~search(Head(ps), text).is_null THEN search(Head(ps), text)
    ELSE FirstMatch(Tail(ps), text)

\* text = f"{subject or ''} {body or ''}"
PriceText(subject, body) == OrEmpty(subject) \o <<" ">> \o OrEmpty(body)

extract_price(subject, body) == FirstMatch(patterns, PriceText(subject, body))

\* a call of a function of the record normaliser: its arguments and what it returned
NoCall == [fn |-> "none"]

(***************************************************************************)
(* The REST layer (routers/messages.py, routers/hashtags.py): read-only    *)
(* queries on the committed rows.  An optional str is NullList (None) or   *)
(* List of a sequence of tokens: a character or a whole word.              *)
(***************************************************************************)
\* "if text:" for an optional str
Given(text) == ~text.is_null /\ text.items # <<>>

\* str() of a natural number
RECURSIVE str(_)
str(n) ==
    IF n < 10 THEN <<Digits[n + 1]>> ELSE str(n \div 10) \o <<Digits[(n % 10) + 1]>>

\* int(cursor) raises ValueError unless the text is a decimal number
IsDecimal(text) == text # <<>> /\ \A i \in 1..Len(text) : text[i] \in Range(Digits)

\* hashtags.split(",")
RECURSIVE split(_)
split(text) ==
    IF Find(text, ",", 1) = 0 THEN <<text>>
    ELSE <<SubSeq(text, 1, Find(text, ",", 1) - 1)>>
            \o split(SubSeq(text, Find(text, ",", 1) + 1, Len(text)))

\* h.strip()
strip(text) ==
    LET keep == {i \in 1..Len(text) : text[i] \notin SpaceTokens}
    IN  IF keep = {} THEN <<>> ELSE SubSeq(text, SetMin(keep), SetMax(keep))

\* h.lower()
lower(text) == [i \in 1..Len(text) |-> Lower(text[i])]

RECURSIVE StrippedLowered(_)
StrippedLowered(items) ==
    IF items = <<>> THEN <<>>
    ELSE (IF strip(Head(items)) # <<>> THEN <<lower(strip(Head(items)))>> ELSE <<>>)
            \o StrippedLowered(Tail(items))

\* hashtag_list that keeps the names as they were typed
hashtag_list_as_typed(hashtags) ==
    IF ~Given(hashtags) THEN <<>>
    ELSE split(hashtags.items)

\* if hashtags: hashtag_list = [h.strip().lower() for h in hashtags.split(",") if h.strip()]
hashtag_list(hashtags) ==
    IF ~Given(hashtags) THEN <<>>
    ELSE StrippedLowered(split(hashtags.items))

\* the created column: the source assigns ids in the order of posting, an id stands for
\* the time its message was created
created(row) == row.id

\* m.search_vector @@ plainto_tsquery('english', search): every word of the query is in
\* the vector, which the trigger of the schema builds from the subject
SearchMatches(row, query) == \A i \in 1..Len(query) : query[i] = row.subject

\* the conditions on the columns of messages
Conditions(row, q) ==
    /\ Given(q.cursor) => row.id < int(q.cursor.items)
    /\ q.since # Null => created(row) > q.since
    /\ Given(q.search) => SearchMatches(row, q.search.items)

\* the rows of FROM messages m [JOIN hashtags h ON h.message_id = m.id] WHERE ... that
\* come from one row of messages: one without the join, one per matching hashtag row
\* with it
JoinedCopies(view, row, q) ==
    IF ~Conditions(row, q) THEN 0
    ELSE IF hashtag_list(q.hashtags) = <<>> THEN 1
    ELSE BagCardinality(
             [h \in {x \in BagToSet(view.hashtags) :
                        /\ x.message_id = row.id
                        /\ <<Lower(x.name)>> \in Range(hashtag_list(q.hashtags))}
                |-> CopiesIn(h, view.hashtags)])

RECURSIVE Repeat(_, _)
Repeat(x, n) == IF n = 0 THEN <<>> ELSE <<x>> \o Repeat(x, n - 1)

\* the rows of the messages with the ids of a list, every row as often as copies says
RECURSIVE RowsOf(_, _, _)
RowsOf(view, ids, copies) ==
    IF ids = <<>> THEN <<>>
    ELSE LET row == CHOOSE m \in BagToSet(view.messages) : m.id = Head(ids)
         IN  Repeat(row, copies[Head(ids)]) \o RowsOf(view, Tail(ids), copies)

\* the query without DISTINCT
FetchRowsAll(view, q) ==
    LET copies == [id \in StoredIds(view) |->
                      JoinedCopies(view, CHOOSE m \in BagToSet(view.messages) : m.id = id, q)]
    IN  Take(RowsOf(view, SortDesc({id \in StoredIds(view) : copies[id] > 0}), copies),
             q.limit + 1)

\* SELECT DISTINCT m.id, ... ORDER BY m.id DESC LIMIT limit + 1
FetchRows(view, q) ==
    LET copies == [id \in StoredIds(view) |->
                      Min2(1, JoinedCopies(view,
                                  CHOOSE m \in BagToSet(view.messages) : m.id = id, q))]
    IN  Take(RowsOf(view, SortDesc({id \in StoredIds(view) : copies[id] > 0}), copies),
             q.limit + 1)

\* _derive_category(hashtags)
_derive_category(names) ==
    IF "forsale" \in {Lower(n) : n \in names} THEN "ForSale"
    ELSE IF "forfree" \in {Lower(n) : n \in names} THEN "ForFree"
    ELSE IF "iso" \in {Lower(n) : n \in names} THEN "ISO"
    ELSE "None"

\* _fetch_related_data and the MessageSummary built from a row
MessageSummary(view, row) ==
    LET tags == {h \in BagToSet(view.hashtags) : h.message_id = row.id}
    IN  [id |-> row.id,
         subject |-> row.subject,
         hashtags |-> [h \in tags |-> CopiesIn(h, view.hashtags)],
         attachments |-> [a \in {x \in BagToSet(view.attachments) : x.message_id = row.id}
                            |-> CopiesIn(a, view.attachments)],
         category |-> _derive_category({h.name : h \in tags})]

\* _generate_etag(messages[0].id, cursor, hashtags, search, limit): the MD5 digest is
\* taken to tell different arguments apart
MessagesEtag(first_id, q) == <<first_id, q.cursor, q.hashtags, q.search, q.limit>>

NoApi ==
    [endpoint |-> "none", request |-> Null, status_code |-> 0, messages |-> <<>>,
     has_more |-> FALSE, next_cursor |-> NullList, etag |-> NullList,
     hashtags |-> <<>>, total_unique |-> 0, walk |-> <<>>, from_start |-> FALSE]

\* SELECT name, color_hex, COUNT(*) as count FROM hashtags GROUP BY name, color_hex
HashtagGroups(view) ==
    {[name |-> g[1], color_hex |-> g[2],
      count |-> BagCardinality(
                    [h \in {x \in BagToSet(view.hashtags) :
                               x.name = g[1] /\ x.color_hex = g[2]}
                       |-> CopiesIn(h, view.hashtags)])] :
        g \in {<<x.name, x.color_hex>> : x \in BagToSet(view.hashtags)}}

\* ORDER BY count DESC: any order of the groups in which no count is followed by a
\* larger one
Orders(groups) ==
    {o \in [1..Cardinality(groups) -> groups] :
        /\ \A i, j \in 1..Cardinality(groups) : i # j => o[i] # o[j]
        /\ \A i, j \in 1..Cardinality(groups) : i < j => o[i].count >= o[j].count}

\* etag_data = "|".join(f"{h.name}:{h.count}" for h in hashtags[:20])
HashtagsEtag(hashtags) ==
    [i \in 1..Min2(20, Len(hashtags)) |-> <<hashtags[i].name, hashtags[i].count>>]

\* list_hashtags: what the handler answers when the query returned the groups as rows
list_hashtags(rows, if_none_match) ==
    IF Given(if_none_match) /\ if_none_match = List(HashtagsEtag(rows))
    THEN [NoApi EXCEPT !.endpoint = "hashtags", !.status_code = 304,
                       !.etag = List(HashtagsEtag(rows))]
    ELSE [NoApi EXCEPT !.endpoint = "hashtags", !.status_code = 200,
                       !.hashtags = rows, !.total_unique = Len(rows),
                       !.etag = List(HashtagsEtag(rows))]

\* has_more of a response that says so as soon as the page is full
HasMoreWhenFull(rows, limit) == Len(rows) >= limit

\* has_more = len(rows) > limit
HasMore(rows, limit) == Len(rows) > limit

\* list_messages: what the handler answers to the query q on the committed rows
list_messages(view, q) ==
    IF Given(q.cursor) /\ ~IsDecimal(q.cursor.items)
    THEN [NoApi EXCEPT !.endpoint = "messages", !.request = q, !.status_code = 400]
    ELSE LET fetched == FetchRows(view, q)
             has_more == HasMore(fetched, q.limit)
             rows == IF has_more THEN SubSeq(fetched, 1, q.limit) ELSE fetched
             messages == [i \in 1..Len(rows) |-> MessageSummary(view, rows[i])]
             next_cursor == IF messages # <<>> /\ has_more
                            THEN List(str(messages[Len(messages)].id)) ELSE NullList
             etag == IF messages # <<>> THEN List(MessagesEtag(messages[1].id, q))
                     ELSE NullList
         IN  IF messages # <<>> /\ Given(q.if_none_match) /\ q.if_none_match = etag
             THEN [NoApi EXCEPT !.endpoint = "messages", !.request = q,
                                !.status_code = 304, !.etag = etag]
             ELSE [NoApi EXCEPT !.endpoint = "messages", !.request = q,
                                !.status_code = 200, !.messages = messages,
                                !.has_more = has_more, !.next_cursor = next_cursor,
                                !.etag = etag]

Init ==
    /\ client = NoClient
    /\ call = NoCall
    /\ api = NoApi
    /\ static \in BOOLEAN
    /\ source \in {1..n : n \in 0..MaxId}
    /\ edited = {}
    /\ db = EmptyDb
    /\ conn = EmptyDb
    /\ race = NoRace
    /\ b = BackfillIdle
    /\ f = FetchIdle
    /\ _shutdown_requested = FALSE
    /\ now = 0
    /\ hist = NoHist

\* the poster of a message edits it
SourceEdit(id) ==
    /\ id \in source \ edited
    /\ Cardinality(edited) < MaxEdits
    /\ edited' = edited \cup {id}
    /\ UNCHANGED <<source, static, race, db, conn, b, f, _shutdown_requested, now, hist,
                   client, call, api>>

\* a message is posted to the group: it gets the next id
SourcePost ==
    /\ ~static
    /\ Cardinality(source) < MaxId
    /\ source' = source \cup {IF source = {} THEN 1 ELSE SetMax(source) + 1}
    /\ UNCHANGED <<static, edited, race, db, conn, b, f, _shutdown_requested, now, hist,
                   client, call, api>>

(***************************************************************************)
(* backfill_messages / _do_backfill                                        *)
(***************************************************************************)
\* AfterException that commits what the connection had staged
AfterExceptionCommits(committed, view) == view

\* an exception leaves `with psycopg2.connect(...) as conn`: the open transaction is
\* rolled back, so what is committed stays as it was
AfterException(committed, view) == committed

\* the run ends by the exception exc
Raised(run, idle, exc) ==
    [idle EXCEPT !.result = [total_new |-> run.total_new, is_complete |-> FALSE,
                             raised |-> exc, dry_run |-> run.dry_run,
                             batches |-> run.batches]]

\* try: client.get_messages(limit=1, sort_dir="desc") ... except Exception
BackfillCountCatches(exc) == TRUE

\* backfill_messages up to the loop: the flag is cleared, the token is loaded, and the
\* total count is asked for (it is only logged); count is how that request ends
BackfillBegin(batch_size, max_messages, dry_run, count) ==
    /\ b.pc = "idle" /\ f.pc = "idle"
    /\ now' = Tick(now)
    /\ _shutdown_requested' = FALSE
    /\ conn' = db
    /\ b' = IF count = "page" \/ BackfillCountCatches(count)
            THEN [BackfillIdle EXCEPT
                    !.pc = "loop", !.batch_size = batch_size,
                    !.max_messages = max_messages, !.dry_run = dry_run,
                    !.page_token = LoadBackfillToken(db)]
            ELSE Raised([BackfillIdle EXCEPT !.dry_run = dry_run], BackfillIdle, count)
    /\ f' = [f EXCEPT !.result = NoResult]
    /\ hist' = [Started(db) EXCEPT !.count_requests = 1,
                                   !.first_token = LoadBackfillToken(db)]
    /\ UNCHANGED <<source, static, edited, race, db,
                   client, call, api>>

\* _signal_handler, installed while backfill_messages runs
Signal ==
    /\ b.pc # "idle"
    /\ ~_shutdown_requested
    /\ _shutdown_requested' = TRUE
    /\ hist' = [hist EXCEPT !.interrupted = b.pc]
    /\ UNCHANGED <<source, static, edited, race, db, conn, b, f, now,
                   client, call, api>>

\* max_messages is not None and total_fetched >= max_messages
BackfillCapReached(run) ==
    run.max_messages # Null /\ run.total_fetched >= run.max_messages

\* BackfillFetchLimit that asks for a full batch whatever is left of the cap
BackfillFetchLimitUncapped(run) == run.batch_size

\* remaining = (max_messages - total_fetched) if max_messages else batch_size
\* fetch_limit = min(batch_size, remaining)
BackfillFetchLimit(run) ==
    LET remaining == IF Truthy(run.max_messages)
                     THEN run.max_messages - run.total_fetched ELSE run.batch_size
    IN  Min2(run.batch_size, remaining)

\* BackfillStops that does not look at the cap
BackfillStopsAtFlagOnly(run, shutdown_requested) == shutdown_requested

\* BackfillStops that does not look at the shutdown flag
BackfillStopsAtCapOnly(run, shutdown_requested) == BackfillCapReached(run)

\* if _shutdown_requested: break;  if max_messages is not None and ...: break
BackfillStops(run, shutdown_requested) == shutdown_requested \/ BackfillCapReached(run)

\* the two breaks at the top of the loop
BackfillBreak ==
    /\ b.pc = "loop"
    /\ BackfillStops(b, _shutdown_requested)
    /\ b' = [b EXCEPT !.pc = "final"]
    /\ UNCHANGED <<source, static, edited, race, db, conn, f, _shutdown_requested, now, hist,
                   client, call, api>>

\* client.get_messages(limit=fetch_limit, page_token=page_token, sort_dir="desc") answers
BackfillFetchPage ==
    /\ b.pc = "loop"
    /\ ~BackfillStops(b, _shutdown_requested)
    /\ \E response \in get_messages(source, edited, BackfillFetchLimit(b), b.page_token) :
          b' = [b EXCEPT !.pc = "page", !.response = response]
    /\ hist' = Requested(hist, "backfill", BackfillFetchLimit(b), b.page_token, "page", 0)
    /\ UNCHANGED <<source, static, edited, race, db, conn, f, _shutdown_requested, now,
                   client, call, api>>

\* BackfillCatches without the except clause
BackfillCatchesNothing(exc) == FALSE

\* except RateLimitError as e
BackfillCatches(exc) == exc = "RateLimitError"

\* BackfillOnRateLimit that forgets the page it was at
BackfillOnRateLimitRestarts(run, retry_after) ==
    [run EXCEPT !.slept = retry_after, !.rate_limits = @ + 1, !.page_token = Null]

\* time.sleep(e.retry_after); continue
BackfillOnRateLimit(run, retry_after) ==
    [run EXCEPT !.slept = retry_after, !.rate_limits = @ + 1]

\* client.get_messages raises
BackfillFetchRaises(exc, retry_after) ==
    /\ b.pc = "loop"
    /\ ~BackfillStops(b, _shutdown_requested)
    /\ exc = "RateLimitError" => b.rate_limits < MaxRateLimits
    /\ hist' = Requested(hist, "backfill", BackfillFetchLimit(b), b.page_token, exc,
                          IF exc = "RateLimitError" THEN retry_after ELSE 0)
    /\ IF BackfillCatches(exc)
       THEN /\ b' = BackfillOnRateLimit(b, retry_after)
            /\ UNCHANGED <<db, conn, _shutdown_requested>>
       ELSE /\ b' = Raised(b, BackfillIdle, exc)
            /\ db' = AfterException(db, conn)
            /\ conn' = db'
            /\ UNCHANGED _shutdown_requested
    /\ UNCHANGED <<source, static, edited, race, f, now,
                   client, call, api>>

\* messages = [msg.to_message() for msg in response.data]
Messages(response) == [i \in 1..Len(response.data) |-> to_message(response.data[i])]

\* message_ids = [m.id for m in messages]
MessageIds(messages) == [i \in 1..Len(messages) |-> messages[i].id]

\* InsertNew that inserts in a dry run too
InsertNewEvenDry(view, new_messages, dry_run) ==
    IF new_messages # <<>> THEN _insert_messages(view, new_messages) ELSE view

\* if new_messages: if not dry_run: _insert_messages(cur, new_messages)
InsertNew(view, new_messages, dry_run) ==
    IF new_messages # <<>> /\ ~dry_run THEN _insert_messages(view, new_messages) ELSE view

\* whether the batch executes an INSERT at all (and so can fail in storage)
Inserts(view, response, dry_run) ==
    LET messages == Messages(response)
    IN  /\ ~dry_run
        /\ NewMessages(messages, ExistingIds(view, MessageIds(messages))) # <<>>

\* if not dry_run and response.next_page_token: UPDATE sync_state ...; conn.commit()
\* the view after the statement, and whether it was committed
BackfillSaveProgress(view, response, message_ids, dry_run) ==
    IF ~dry_run /\ Truthy(response.next_page_token)
    THEN [view |-> UpdateBackfillState(view, response.next_page_token, message_ids),
          commit |-> TRUE]
    ELSE [view |-> view, commit |-> FALSE]

\* if not response.has_more: the token is cleared and committed (not in a dry run)
BackfillAtEnd(view, response, dry_run) ==
    IF ~response.has_more /\ ~dry_run
    THEN [view |-> ClearBackfillToken(view), commit |-> TRUE]
    ELSE [view |-> view, commit |-> FALSE]

\* the loop body after the SELECT of the existing ids, on a view of the connection
BackfillBatchWith(view, response, dry_run, existing_ids) ==
    LET messages == Messages(response)
        message_ids == MessageIds(messages)
        new_messages == NewMessages(messages, existing_ids)
        inserted == InsertNew(view, new_messages, dry_run)
        saved == BackfillSaveProgress(inserted, response, message_ids, dry_run)
        ended == BackfillAtEnd(saved.view, response, dry_run)
    IN  [message_ids |-> message_ids, existing_ids |-> existing_ids,
         new_messages |-> new_messages, view |-> ended.view,
         commit |-> saved.commit \/ ended.commit]

\* the loop body after a page with data arrived, on a view of the connection
BackfillBatchViews(view, response, dry_run) ==
    BackfillBatchWith(view, response, dry_run,
                      ExistingIds(view, MessageIds(Messages(response))))

\* BackfillAfterBatch that counts every fetched message as new
BackfillAfterBatchCountsFetched(run, r) ==
    [run EXCEPT
       !.pc = IF run.response.has_more THEN "loop" ELSE "final",
       !.total_fetched = @ + Len(r.message_ids),
       !.total_new = @ + Len(r.message_ids),
       !.is_complete = ~run.response.has_more,
       !.page_token = IF run.response.has_more
                      THEN run.response.next_page_token ELSE @,
       !.slept = IF run.response.has_more THEN Delay ELSE @,
       !.batches = @ + 1,
       !.response = NoResponse]

\* BackfillAfterBatch that leaves the loop at a page with stored ids, as forward sync does
BackfillAfterBatchStopsAtStored(run, r) ==
    [run EXCEPT
       !.pc = IF run.response.has_more /\ r.existing_ids = {} THEN "loop" ELSE "final",
       !.total_fetched = @ + Len(r.message_ids),
       !.total_new = @ + Len(r.new_messages),
       !.is_complete = ~run.response.has_more,
       !.page_token = IF run.response.has_more
                      THEN run.response.next_page_token ELSE @,
       !.slept = IF run.response.has_more THEN Delay ELSE @,
       !.batches = @ + 1,
       !.response = NoResponse]

\* the loop variables after the batch r of the page in run.response
BackfillAfterBatch(run, r) ==
    [run EXCEPT
       !.pc = IF run.response.has_more THEN "loop" ELSE "final",
       !.total_fetched = @ + Len(r.message_ids),
       !.total_new = @ + Len(r.new_messages),
       !.is_complete = ~run.response.has_more,
       !.page_token = IF run.response.has_more
                      THEN run.response.next_page_token ELSE @,
       !.slept = IF run.response.has_more THEN Delay ELSE @,
       !.batches = @ + 1,
       !.response = NoResponse]

\* if not response.data: is_complete = True; break
BackfillEmptyPage ==
    /\ b.pc = "page"
    /\ b.response.data = <<>>
    /\ b' = [b EXCEPT !.pc = "final", !.is_complete = TRUE, !.response = NoResponse]
    /\ UNCHANGED <<source, static, edited, race, db, conn, f, _shutdown_requested, now, hist,
                   client, call, api>>

\* the loop body for a page with data: dedup, insert, token and watermarks, commit
BackfillBatch ==
    /\ b.pc = "page"
    /\ b.response.data # <<>>
    /\ LET r == BackfillBatchViews(conn, b.response, b.dry_run)
       IN  /\ conn' = r.view
           /\ db' = IF r.commit THEN r.view ELSE db
           /\ b' = BackfillAfterBatch(b, r)
           /\ hist' = Processed(hist, "backfill", r.message_ids, r.new_messages,
                                conn, r.view, b.response, b.dry_run)
    /\ UNCHANGED <<source, static, edited, race, f, _shutdown_requested, now,
                   client, call, api>>

\* the view when the INSERT into hashtags raises: the message rows are already staged
PartialInsert(view, response) ==
    LET messages == Messages(response)
    IN  [view EXCEPT !.messages =
            InsertMessageRows(@, NewMessages(messages,
                                             ExistingIds(view, MessageIds(messages))))]

\* an INSERT of the batch fails (psycopg2.Error): the exception leaves the run
BackfillInsertFails ==
    /\ b.pc = "page"
    /\ b.response.data # <<>>
    /\ Inserts(conn, b.response, b.dry_run)
    /\ b' = Raised(b, BackfillIdle, "StorageError")
    /\ db' = AfterException(db, PartialInsert(conn, b.response))
    /\ conn' = db'
    /\ hist' = Failed(hist, conn, b.response)
    /\ UNCHANGED <<source, static, edited, race, f, _shutdown_requested, now,
                   client, call, api>>

\* after the loop: the final commit, and the run returns (total_new, is_complete)
BackfillFinish ==
    /\ b.pc = "final"
    /\ db' = conn
    /\ b' = [BackfillIdle EXCEPT
                !.result = [total_new |-> b.total_new, is_complete |-> b.is_complete,
                            raised |-> "none", dry_run |-> b.dry_run,
                            batches |-> b.batches]]
    /\ UNCHANGED <<source, static, edited, race, conn, f, _shutdown_requested, now, hist,
                   client, call, api>>

\* get_backfill_status: COUNT(*), the sync_state row, MIN(id) and MAX(id) of messages
get_backfill_status(view) ==
    LET messages_count == RowCount(view)
        page_token == view.sync_state.backfill_page_token
        actual_min == IF StoredIds(view) = {} THEN Null ELSE SetMin(StoredIds(view))
        actual_max == IF StoredIds(view) = {} THEN Null ELSE SetMax(StoredIds(view))
    IN  [messages_count |-> messages_count,
         oldest_message_id |-> IF Truthy(actual_min) THEN actual_min
                               ELSE view.sync_state.oldest_message_id,
         newest_message_id |-> IF Truthy(actual_max) THEN actual_max
                               ELSE view.sync_state.newest_message_id,
         backfill_page_token |-> page_token,
         is_complete |-> page_token = Null /\ messages_count > 0]

\* reset_backfill that clears the whole sync_state row
reset_backfill_whole_row(view) == [view EXCEPT !.sync_state = EmptySyncState]

\* UPDATE sync_state SET backfill_page_token = NULL, oldest_message_id = NULL WHERE id = 1
reset_backfill(view) ==
    [view EXCEPT !.sync_state = [@ EXCEPT !.backfill_page_token = Null,
                                          !.oldest_message_id = Null]]

\* reset_backfill (a new start: what the last run returned and the look-back are dropped)
ResetBackfill ==
    /\ b.pc = "idle" /\ f.pc = "idle"
    /\ db' = reset_backfill(db)
    /\ conn' = db'
    /\ b' = [b EXCEPT !.result = NoResult]
    /\ f' = [f EXCEPT !.result = NoResult]
    /\ hist' = NoHist
    /\ UNCHANGED <<source, static, edited, race, _shutdown_requested, now,
                   client, call, api>>

(***************************************************************************)
(* fetch_new_messages                                                      *)
(***************************************************************************)
FetchBegin(batch_size, max_messages, dry_run) ==
    /\ b.pc = "idle" /\ f.pc = "idle"
    /\ now' = Tick(now)
    /\ conn' = db
    /\ f' = [FetchIdle EXCEPT !.pc = "loop", !.batch_size = batch_size,
                              !.max_messages = max_messages, !.dry_run = dry_run]
    /\ b' = [b EXCEPT !.result = NoResult]
    /\ hist' = Started(db)
    /\ UNCHANGED <<source, static, edited, race, db, _shutdown_requested,
                   client, call, api>>

\* fetch_limit = min(batch_size, max_messages - total_fetched)
FetchLimit(run) == Min2(run.batch_size, run.max_messages - run.total_fetched)

\* FetchCapReached that lets the loop make one more pass at the cap
FetchCapReachedLate(run) == run.total_fetched > run.max_messages

\* while total_fetched < max_messages
FetchCapReached(run) == ~(run.total_fetched < run.max_messages)

FetchBreak ==
    /\ f.pc = "loop"
    /\ FetchCapReached(f)
    /\ f' = [f EXCEPT !.pc = "final"]
    /\ UNCHANGED <<source, static, edited, race, db, conn, b, _shutdown_requested, now, hist,
                   client, call, api>>

FetchPage ==
    /\ f.pc = "loop"
    /\ ~FetchCapReached(f)
    /\ \E response \in get_messages(source, edited, FetchLimit(f), f.page_token) :
          f' = [f EXCEPT !.pc = "page", !.response = response]
    /\ hist' = Requested(hist, "fetch", FetchLimit(f), f.page_token, "page", 0)
    /\ UNCHANGED <<source, static, edited, race, db, conn, b, _shutdown_requested, now,
                   client, call, api>>

\* FetchCatches with a bare except: every failed request ends the loop quietly
FetchCatchesAny(exc) == TRUE

\* FetchCatches without the except clause: the rate limit leaves the run as an exception
FetchCatchesNothing(exc) == FALSE

\* except RateLimitError as e: ... break
FetchCatches(exc) == exc = "RateLimitError"

FetchRaises(exc) ==
    /\ f.pc = "loop"
    /\ ~FetchCapReached(f)
    /\ hist' = Requested(hist, "fetch", FetchLimit(f), f.page_token, exc, 0)
    /\ IF FetchCatches(exc)
       THEN /\ f' = [f EXCEPT !.pc = "final", !.rate_limits = @ + 1]
            /\ UNCHANGED <<db, conn>>
       ELSE /\ f' = Raised(f, FetchIdle, exc)
            /\ db' = AfterException(db, conn)
            /\ conn' = db'
    /\ UNCHANGED <<source, static, edited, race, b, _shutdown_requested, now,
                   client, call, api>>

\* if not response.data: break
FetchEmptyPage ==
    /\ f.pc = "page"
    /\ f.response.data = <<>>
    /\ f' = [f EXCEPT !.pc = "final", !.response = NoResponse]
    /\ UNCHANGED <<source, static, edited, race, db, conn, b, _shutdown_requested, now, hist,
                   client, call, api>>

\* FetchStops without the break on existing ids
FetchStopsAtEndOnly(existing_ids, response) == ~response.has_more

\* if existing_ids: break;  if not response.has_more: break
FetchStops(existing_ids, response) == existing_ids # {} \/ ~response.has_more

\* the loop variables after the page in run.response was processed
FetchAfterBatch(run, message_ids, new_messages, existing_ids) ==
    LET stop == FetchStops(existing_ids, run.response)
    IN  [run EXCEPT
           !.pc = IF stop THEN "final" ELSE "loop",
           !.total_fetched = @ + Len(message_ids),
           !.total_new = @ + Len(new_messages),
           !.message_ids = message_ids,
           !.page_token = IF stop THEN @ ELSE run.response.next_page_token,
           !.batches = @ + 1,
           !.response = NoResponse]

\* the loop body for a page with data; nothing is committed before the loop ends
FetchBatch ==
    /\ f.pc = "page"
    /\ f.response.data # <<>>
    /\ LET messages == Messages(f.response)
           message_ids == MessageIds(messages)
           existing_ids == ExistingIds(conn, message_ids)
           new_messages == NewMessages(messages, existing_ids)
           view == InsertNew(conn, new_messages, f.dry_run)
       IN  /\ conn' = view
           /\ f' = FetchAfterBatch(f, message_ids, new_messages, existing_ids)
           /\ hist' = Processed(hist, "fetch", message_ids, new_messages,
                                conn, view, f.response, f.dry_run)
    /\ UNCHANGED <<source, static, edited, race, db, b, _shutdown_requested, now,
                   client, call, api>>

FetchInsertFails ==
    /\ f.pc = "page"
    /\ f.response.data # <<>>
    /\ Inserts(conn, f.response, f.dry_run)
    /\ f' = Raised(f, FetchIdle, "StorageError")
    /\ db' = AfterException(db, PartialInsert(conn, f.response))
    /\ conn' = db'
    /\ hist' = Failed(hist, conn, f.response)
    /\ UNCHANGED <<source, static, edited, race, b, _shutdown_requested, now,
                   client, call, api>>

\* if total_new > 0 and not dry_run: UPDATE sync_state ...
FetchSaveState(view, run, at) ==
    IF run.total_new > 0 /\ ~run.dry_run
    THEN UpdateFetchState(view, at, run.message_ids) ELSE view

\* after the loop: the sync state is updated, everything is committed, total_new returned
FetchFinish ==
    /\ f.pc = "final"
    /\ conn' = FetchSaveState(conn, f, now)
    /\ db' = conn'
    /\ f' = [FetchIdle EXCEPT
                !.result = [total_new |-> f.total_new, is_complete |-> FALSE,
                            raised |-> "none", dry_run |-> f.dry_run,
                            batches |-> f.batches]]
    /\ UNCHANGED <<source, static, edited, race, b, _shutdown_requested, now, hist,
                   client, call, api>>

(***************************************************************************)
(* A forward sync run and a backfill run at the same time, each on its own *)
(* connection.  The loop body is taken statement by statement: the SELECT  *)
(* of the existing ids and the INSERTs are separate steps, and the other   *)
(* run can commit in between.  Neither run is a dry run.                   *)
(***************************************************************************)
\* backfill_messages up to the loop (the answer to the count request is only logged)
RaceBackfillBegin(batch_size, max_messages) ==
    /\ b.pc = "idle"
    /\ now < MaxClock
    /\ now' = now + 1
    /\ _shutdown_requested' = FALSE
    /\ b' = [BackfillIdle EXCEPT
                !.pc = "loop", !.batch_size = batch_size,
                !.max_messages = max_messages, !.page_token = LoadBackfillToken(db)]
    /\ UNCHANGED <<source, static, edited, db, conn, race, f, hist,
                   client, call, api>>

RaceFetchBegin(batch_size, max_messages) ==
    /\ f.pc = "idle"
    /\ now < MaxClock
    /\ now' = now + 1
    /\ f' = [FetchIdle EXCEPT !.pc = "loop", !.batch_size = batch_size,
                              !.max_messages = max_messages]
    /\ UNCHANGED <<source, static, edited, db, conn, race, b, _shutdown_requested, hist,
                   client, call, api>>

\* cur.execute("SELECT id FROM messages WHERE id = ANY(%s)", (message_ids,))
RaceBackfillSelect ==
    /\ b.pc = "page"
    /\ b.response.data # <<>>
    /\ race' = [race EXCEPT !.existing_ids.backfill =
                   ExistingIds(db, MessageIds(Messages(b.response)))]
    /\ b' = [b EXCEPT !.pc = "selected"]
    /\ UNCHANGED <<source, static, edited, db, conn, f, _shutdown_requested, now, hist,
                   client, call, api>>

\* the messages of an INSERT ... ON CONFLICT (id) DO NOTHING that found their id stored
Skipped(view, new_messages) ==
    {[id |-> new_messages[i].id, subject |-> new_messages[i].subject] :
        i \in {k \in 1..Len(new_messages) : new_messages[k].id \in StoredIds(view)}}

\* an INSERT of an id that another open transaction has inserted waits for its end
Blocked(staged, new_messages) ==
    \E i \in 1..Len(new_messages) :
        \E r \in BagToSet(staged.messages) : r.id = new_messages[i].id

\* the rest of the loop body: filter, INSERTs, UPDATE sync_state, commit
RaceBackfillInsert ==
    /\ b.pc = "selected"
    /\ LET r == BackfillBatchWith(db, b.response, b.dry_run, race.existing_ids.backfill)
       IN  /\ ~Blocked(race.staged, r.new_messages)
           /\ db' = r.view
           /\ b' = BackfillAfterBatch(b, r)
           /\ race' = [race EXCEPT !.existing_ids.backfill = {},
                                   !.skipped = Skipped(db, r.new_messages)]
           /\ hist' = Processed(hist, "backfill", r.message_ids, r.new_messages,
                                db, r.view, b.response, b.dry_run)
    /\ UNCHANGED <<source, static, edited, conn, f, _shutdown_requested, now,
                   client, call, api>>

RaceBackfillFinish ==
    /\ b.pc = "final"
    /\ b' = [BackfillIdle EXCEPT
                !.result = [total_new |-> b.total_new, is_complete |-> b.is_complete,
                            raised |-> "none", dry_run |-> b.dry_run,
                            batches |-> b.batches]]
    /\ UNCHANGED <<source, static, edited, db, conn, race, f, _shutdown_requested, now,
                   hist,
                   client, call, api>>

RaceFetchSelect ==
    /\ f.pc = "page"
    /\ f.response.data # <<>>
    /\ race' = [race EXCEPT !.existing_ids.fetch =
                   ExistingIds(Seen(db, race.staged), MessageIds(Messages(f.response)))]
    /\ f' = [f EXCEPT !.pc = "selected"]
    /\ UNCHANGED <<source, static, edited, db, conn, b, _shutdown_requested, now, hist,
                   client, call, api>>

\* filter, INSERTs (staged until the loop has ended), the two breaks
RaceFetchInsert ==
    /\ f.pc = "selected"
    /\ LET messages == Messages(f.response)
           message_ids == MessageIds(messages)
           existing_ids == race.existing_ids.fetch
           new_messages == NewMessages(messages, existing_ids)
           view == Seen(db, race.staged)
           after == InsertNew(view, new_messages, f.dry_run)
       IN  /\ race' = [race EXCEPT !.existing_ids.fetch = {},
                                   !.staged = Staged(db, after),
                                   !.skipped = Skipped(view, new_messages)]
           /\ f' = FetchAfterBatch(f, message_ids, new_messages, existing_ids)
           /\ hist' = Processed(hist, "fetch", message_ids, new_messages,
                                view, after, f.response, f.dry_run)
    /\ UNCHANGED <<source, static, edited, db, conn, b, _shutdown_requested, now,
                   client, call, api>>

\* after the loop: UPDATE sync_state, conn.commit(), return total_new
RaceFetchFinish ==
    /\ f.pc = "final"
    /\ db' = FetchSaveState(Seen(db, race.staged), f, now)
    /\ race' = [race EXCEPT !.staged = EmptyStaged]
    /\ f' = [FetchIdle EXCEPT
                !.result = [total_new |-> f.total_new, is_complete |-> FALSE,
                            raised |-> "none", dry_run |-> f.dry_run,
                            batches |-> f.batches]]
    /\ UNCHANGED <<source, static, edited, conn, b, _shutdown_requested, now, hist,
                   client, call, api>>

(***************************************************************************)
(* One call of GroupsIOClient.get_messages, answer by answer.              *)
(***************************************************************************)
ingestion == <<source, static, edited, db, conn, race, b, f, _shutdown_requested, now, hist>>

\* get_messages builds params and calls _make_request
ClientGetMessages(limit, page_token) ==
    /\ client.pc = "idle"
    /\ client' = [NoClient EXCEPT
                     !.pc = "sending", !.limit = limit,
                     !.params = [limit |-> RequestLimit(limit), page_token |-> page_token],
                     !.total = RetryTotal]
    /\ UNCHANGED <<ingestion, call, api>>

\* the server answers inside session.get: the adapter asks again, gives up, or returns
SessionGetAnswer(status_code, retry_after, text) ==
    /\ client.pc = "sending"
    /\ LET answer == [status_code |-> status_code, retry_after |-> retry_after,
                      text |-> text]
       IN  IF is_retry(client.total, status_code, ~retry_after.is_null)
           THEN IF is_exhausted(client.total - 1)
                THEN client' = [client EXCEPT
                                  !.pc = "done", !.answer = answer, !.total = @ - 1,
                                  !.outcome = [NoOutcome EXCEPT
                                                 !.kind = "RequestException"]]
                ELSE client' = [client EXCEPT !.answer = answer, !.total = @ - 1]
           ELSE client' = [client EXCEPT !.pc = "answered", !.answer = answer,
                                         !.response = answer]
    /\ UNCHANGED <<ingestion, call, api>>

\* the transport fails for good (connection error, timeout): requests.RequestException,
\* logged and raised again
SessionGetFails ==
    /\ client.pc = "sending"
    /\ client' = [client EXCEPT !.pc = "done", !.answer = NoAnswer,
                                !.outcome = [NoOutcome EXCEPT !.kind = "RequestException"]]
    /\ UNCHANGED <<ingestion, call, api>>

\* the status checks of _make_request and its return
MakeRequestReturns ==
    /\ client.pc = "answered"
    /\ client' = [client EXCEPT !.pc = "done",
                                !.outcome = MakeRequestOutcome(client.response)]
    /\ UNCHANGED <<ingestion, call, api>>

Next ==
    \/ SourcePost
    \/ \E bs \in BatchSizes, mm \in BackfillCaps, dry \in BOOLEAN,
          count \in Exceptions \cup {"page"} :
             now < MaxClock /\ BackfillBegin(bs, mm, dry, count)
    \/ Signal
    \/ BackfillBreak
    \/ BackfillFetchPage
    \/ \E exc \in Exceptions, r \in RetryAfters : BackfillFetchRaises(exc, r)
    \/ BackfillEmptyPage
    \/ BackfillBatch
    \/ BackfillInsertFails
    \/ BackfillFinish
    \/ ResetBackfill
    \/ \E bs \in BatchSizes, mm \in FetchCaps, dry \in BOOLEAN :
          now < MaxClock /\ FetchBegin(bs, mm, dry)
    \/ FetchBreak
    \/ FetchPage
    \/ \E exc \in Exceptions : FetchRaises(exc)
    \/ FetchEmptyPage
    \/ FetchBatch
    \/ FetchInsertFails
    \/ FetchFinish

Spec == Init /\ [][Next]_vars

NextEdit == Next \/ \E id \in Ids : SourceEdit(id)

SpecEdit == Init /\ [][NextEdit]_vars

NextRace ==
    \/ SourcePost
    \/ \E id \in Ids : SourceEdit(id)
    \/ \E bs \in BatchSizes, mm \in BackfillCaps : RaceBackfillBegin(bs, mm)
    \/ BackfillBreak
    \/ BackfillFetchPage
    \/ BackfillEmptyPage
    \/ RaceBackfillSelect
    \/ RaceBackfillInsert
    \/ RaceBackfillFinish
    \/ \E bs \in BatchSizes, mm \in FetchCaps : RaceFetchBegin(bs, mm)
    \/ FetchBreak
    \/ FetchPage
    \/ FetchEmptyPage
    \/ RaceFetchSelect
    \/ RaceFetchInsert
    \/ RaceFetchFinish

SpecRace == Init /\ [][NextRace]_vars

\* the steps of a backfill run once it has begun; the only exception followed is the
\* rate limit, after which the loop sleeps and asks again
BackfillRun ==
    \/ BackfillBreak
    \/ BackfillFetchPage
    \/ \E r \in RetryAfters : BackfillFetchRaises("RateLimitError", r)
    \/ BackfillEmptyPage
    \/ BackfillBatch
    \/ BackfillFinish

NextBackfill ==
    \/ \E bs \in BatchSizes, mm \in BackfillCaps, dry \in BOOLEAN :
          now < MaxClock /\ BackfillBegin(bs, mm, dry, "page")
    \/ Signal
    \/ BackfillRun

\* backfill runs over a source that does not change
InitBackfill == Init /\ static

\* a run that has begun goes on to its return
SpecBackfill == InitBackfill /\ [][NextBackfill]_vars /\ WF_vars(BackfillRun)

\* storage after the messages ids were ingested at time 0 by a forward sync
Synced(ids) ==
    LET message_ids == SortDesc(ids)
        messages == [i \in 1..Len(message_ids) |-> to_message(Record(message_ids[i], {}))]
    IN  IF ids = {} THEN EmptyDb
        ELSE UpdateFetchState(_insert_messages(EmptyDb, messages), 0, message_ids)

\* forward sync run again and again against a source that receives no further messages;
\* before the first run storage holds the oldest messages of the source, or none
InitSync ==
    /\ client = NoClient
    /\ call = NoCall
    /\ api = NoApi
    /\ static = TRUE
    /\ source \in {1..n : n \in 0..MaxId}
    /\ edited = {}
    /\ db \in {Synced(1..k) : k \in 0..Cardinality(source)}
    /\ conn = db
    /\ race = NoRace
    /\ b = BackfillIdle
    /\ f = FetchIdle
    /\ _shutdown_requested = FALSE
    /\ now = 0
    /\ hist = NoHist

\* the steps of a forward sync run once it has begun; the only exception followed is
\* the rate limit, which the loop catches and which the source stops raising after the
\* first runs
SyncRun ==
    \/ FetchBreak
    \/ FetchPage
    \/ now < MaxClock /\ FetchRaises("RateLimitError")
    \/ FetchEmptyPage
    \/ FetchBatch
    \/ FetchFinish

NextSync ==
    \/ \E bs \in BatchSizes, mm \in FetchCaps, dry \in BOOLEAN : FetchBegin(bs, mm, dry)
    \/ SyncRun

\* a run that has begun goes on to its return, and runs that write are started again
\* and again with every batch size and cap
SpecSync ==
    /\ InitSync /\ [][NextSync]_vars
    /\ WF_vars(SyncRun)
    /\ \A bs \in BatchSizes, mm \in FetchCaps : SF_vars(FetchBegin(bs, mm, FALSE))

\* no run of the ingestion is under way
NoRun ==
    /\ static = TRUE /\ source = {} /\ edited = {} /\ race = NoRace
    /\ b = BackfillIdle /\ f = FetchIdle
    /\ _shutdown_requested = FALSE /\ now = 0 /\ hist = NoHist

\* no run of the ingestion has started
Quiet == NoRun /\ db = EmptyDb /\ conn = EmptyDb

\* limit and page_token a caller passes to get_messages
ClientLimits == {1, 100, 101, 250}

ClientPageTokens == {Null, 3}

\* what the server can answer
Statuses == {200, 404, 429, 501, 503}

RetryAfterHeaders == {NullList, List(<<"7">>), List(<<"3", "0">>)}

Bodies == {"{}", "busy"}

InitClient == Quiet /\ client = NoClient /\ call = NoCall /\ api = NoApi

NextClient ==
    \/ \E limit \in ClientLimits, page_token \in ClientPageTokens :
          ClientGetMessages(limit, page_token)
    \/ \E status_code \in Statuses, retry_after \in RetryAfterHeaders, text \in Bodies :
          SessionGetAnswer(status_code, retry_after, text)
    \/ SessionGetFails
    \/ MakeRequestReturns

SpecClient == InitClient /\ [][NextClient]_vars

\* every str of at most n characters of chars
Strs(chars, n) == UNION {[1..k -> chars] : k \in 0..n}

\* the sender names a record can carry: a letter, the characters of an address and of the
\* display form, a blank
NameChars == {"a", ".", "@", "<", ">", " "}

Names == {NullList} \cup {List(s) : s \in Strs(NameChars, MaxNameLen)}

CallExtractEmail ==
    /\ call.fn = "none"
    /\ \E name \in Names :
          call' = [fn |-> "extract_email", name |-> name, result |-> extract_email(name)]
    /\ UNCHANGED <<ingestion, client, api>>

\* the tokens of a subject: the characters the patterns name, the two words in the
\* capitalisation people write them in, and a word no pattern knows
PriceTokens == {"$", "5", ",", ".", " ", "Asking", "OBO", "x"}

Subjects == {NullList} \cup {List(s) : s \in Strs(PriceTokens, MaxTextLen)}

MessageBodies == {NullList, List(<<>>), List(<<"$", "5", ".", "5", "5">>), List(<<"5", "OBO">>)}

CallExtractPrice ==
    /\ call.fn = "none"
    /\ \E subject \in Subjects, body \in MessageBodies :
          call' = [fn |-> "extract_price", subject |-> subject, body |-> body,
                   result |-> extract_price(subject, body)]
    /\ UNCHANGED <<ingestion, client, api>>

\* an attachment as the source lists it, with the index the source gives it
AttachmentDicts == [filename : {"a.jpg", "b.jpg"}, attachment_index : {0, 5}]

RawAttachments ==
    {NullList}
       \cup {List(s) : s \in UNION {[1..k -> AttachmentDicts] : k \in 0..MaxAttachments}}

RawHashtags ==
    {NullList, List(<<>>), List(<<[name |-> "forsale", color |-> "red"]>>),
     List(<<[name |-> "forsale", color |-> "red"], [name |-> "sold", color |-> "green"]>>)}

RawRecords ==
    {[RawRecord(1) EXCEPT !.hashtags = h, !.attachments = a] :
        h \in RawHashtags, a \in RawAttachments}

CallToMessage ==
    /\ call.fn = "none"
    /\ \E raw \in RawRecords :
          call' = [fn |-> "to_message", raw |-> raw, result |-> to_message(raw)]
    /\ UNCHANGED <<ingestion, client, api>>

InitNormalizer == Quiet /\ client = NoClient /\ call = NoCall /\ api = NoApi

NextNormalizer ==
    \/ CallExtractEmail
    \/ CallExtractPrice
    \/ CallToMessage

SpecNormalizer == InitNormalizer /\ [][NextNormalizer]_vars

(***************************************************************************)
(* The REST layer on a store the ingestion left behind.                    *)
(***************************************************************************)
\* the records a message id can have been ingested with
StoredRecords(id) ==
    {[RawRecord(id) EXCEPT !.subject = k[1], !.hashtags = k[2], !.attachments = NullList] :
        k \in {<<"posted", NullList>>,
                <<"posted", List(<<[name |-> "ForSale", color |-> "red"]>>)>>,
                <<"edited", List(<<[name |-> "iso", color |-> "green"]>>)>>,
                <<"posted", List(<<[name |-> "forsale", color |-> "red"],
                                   [name |-> "iso", color |-> "green"]>>)>>,
                <<"edited", List(<<[name |-> "ForSale", color |-> "blue"]>>)>>}}

\* what _insert_messages leaves when it stored one record for each of some ids
Stores ==
    LET Pick(ids) == {p \in [ids -> UNION {StoredRecords(id) : id \in ids}] :
                         \A id \in ids : p[id] \in StoredRecords(id)}
        Ingested(p) == [i \in 1..Len(SortDesc(DOMAIN p)) |->
                           to_message(p[SortDesc(DOMAIN p)[i]])]
    IN  {_insert_messages(EmptyDb, Ingested(p)) :
            p \in UNION {Pick(ids) : ids \in SUBSET (1..MaxStored)}}

\* the hashtags parameter of a query
HashtagParams ==
    {NullList} \cup {List(h) : h \in Strs({"ForSale", "iso", ",", " "}, MaxParamLen)}

\* the queries a client sends first
Queries ==
    {[limit |-> l, cursor |-> c, since |-> Null, hashtags |-> h, search |-> NullList,
      if_none_match |-> NullList] :
        l \in {1, 2}, c \in {NullList, List(<<>>), List(<<"3">>), List(<<"x">>)},
        h \in HashtagParams}
      \cup
    {[limit |-> l, cursor |-> NullList, since |-> t, hashtags |-> h, search |-> w,
      if_none_match |-> NullList] :
        l \in {1, 2}, t \in {Null, 1}, h \in {NullList, List(<<"ForSale">>)},
        w \in {NullList, List(<<"edited">>)}}

SummaryIds(messages) == [i \in 1..Len(messages) |-> messages[i].id]

\* GET /messages
GetMessages ==
    /\ api.endpoint = "none"
    /\ \E q \in Queries :
          api' = [list_messages(db, q) EXCEPT
                     !.walk = SummaryIds(list_messages(db, q).messages),
                     !.from_start = ~Given(q.cursor)]
    /\ UNCHANGED <<ingestion, client, call>>

\* the client asks for the next page: the same query with cursor = next_cursor
GetNextPage ==
    /\ api.endpoint = "messages" /\ api.status_code = 200 /\ Given(api.next_cursor)
    /\ LET q == [api.request EXCEPT !.cursor = api.next_cursor,
                                    !.if_none_match = NullList]
       IN  api' = [list_messages(db, q) EXCEPT
                      !.walk = api.walk \o SummaryIds(list_messages(db, q).messages),
                      !.from_start = api.from_start]
    /\ UNCHANGED <<ingestion, client, call>>

\* the client repeats a query with If-None-Match set to the ETag it was given
GetMessagesAgain ==
    /\ api.endpoint = "messages" /\ api.status_code = 200 /\ Given(api.etag)
    /\ ~Given(api.request.if_none_match)
    /\ api' = [list_messages(db, [api.request EXCEPT !.if_none_match = api.etag])
                  EXCEPT !.walk = api.walk, !.from_start = api.from_start]
    /\ UNCHANGED <<ingestion, client, call>>

\* GET /hashtags, with or without the ETag of an earlier answer
GetHashtags ==
    /\ api.endpoint \in {"none", "hashtags"}
    /\ api.endpoint = "hashtags" => api.status_code = 200
    /\ \E rows \in Orders(HashtagGroups(db)) :
          api' = list_hashtags(rows, IF api.endpoint = "none" THEN NullList ELSE api.etag)
    /\ UNCHANGED <<ingestion, client, call>>

InitApi ==
    /\ db \in Stores /\ conn = db
    /\ static = TRUE /\ source = StoredIds(db) /\ edited = {} /\ race = NoRace
    /\ b = BackfillIdle /\ f = FetchIdle
    /\ _shutdown_requested = FALSE /\ now = 0 /\ hist = NoHist
    /\ client = NoClient /\ call = NoCall /\ api = NoApi

NextApi ==
    \/ GetMessages
    \/ GetNextPage
    \/ GetMessagesAgain
    \/ GetHashtags

SpecApi == InitApi /\ [][NextApi]_vars

(***************************************************************************)
(* Properties.                                                             *)
(***************************************************************************)
OneRowPerId(view) ==
    \A r \in BagToSet(view.messages) :
        /\ CopiesIn(r, view.messages) = 1
        /\ \A q \in BagToSet(view.messages) : q.id = r.id => q = r

BatchIds == Range(hist.batch.ids)

\* the last batch is one of the running (or just finished) backfill / fetch run
BackfillBatchDone == hist.batch.by = "backfill"

FetchBatchDone == hist.batch.by = "fetch"

\* C1: a page whose ids all have a row already (the same page processed again) is
\* counted as zero new messages and adds no message row, and storage never holds
\* two rows for one message id.
C1_SecondInsertIsNoOp ==
    /\ OneRowPerId(db) /\ OneRowPerId(conn)
    /\ (hist.batch.by # "none" /\ BatchIds \subseteq hist.batch.previously)
          => (hist.batch.inserted = 0 /\ hist.batch.rows_added = 0)

C1_Witness ==
    /\ BackfillBatchDone /\ ~hist.batch.dry_run
    /\ Len(hist.batch.ids) = 2
    /\ BatchIds \subseteq hist.batch.previously
    /\ RowCount(db) >= 2

\* C2: the first page request of a backfill run carries the committed backfill token
\* (none when it is null); while a run has not completed, the committed token is the
\* next_page_token of the last batch it processed; and no batch inserts an id that
\* already had a row.
C2_ResumesFromCommittedToken ==
    /\ (b.pc # "idle" /\ hist.req.by = "backfill" /\ hist.req.n = 1 /\ hist.batch.by = "none")
          => hist.req.page_token = db.sync_state.backfill_page_token
    /\ (b.pc \in {"loop", "final"} /\ ~b.dry_run /\ b.batches >= 1 /\ ~b.is_complete)
          => db.sync_state.backfill_page_token = hist.batch.next_page_token
    /\ BackfillBatchDone => hist.batch.new_ids \cap hist.batch.previously = {}

C2_Witness ==
    /\ now = 2 /\ b.pc = "page" /\ ~b.dry_run
    /\ hist.req.n = 1 /\ hist.req.page_token # Null
    /\ b.response.data # <<>>

\* C3: against a source that does not change, once a non-dry-run backfill run has
\* returned is_complete = true, every source message id has exactly one row.
C3_NoMessageLost ==
    (static /\ b.pc = "idle" /\ b.result.is_complete /\ ~b.result.dry_run)
        => (source \subseteq StoredIds(db) /\ OneRowPerId(db))

C3_Witness ==
    /\ static /\ b.pc = "idle" /\ b.result.is_complete /\ ~b.result.dry_run
    /\ now = 2 /\ Cardinality(source) = MaxId
    /\ b.result.batches = 1 /\ hist.batch.before.backfill_page_token # Null
    /\ hist.batch.inserted > 0

\* C4: what is committed holds a batch's token and watermarks only together with the
\* batch's rows: the batch that wrote the committed token has all its messages
\* committed, a non-dry-run backfill run has nothing uncommitted between two batches,
\* and after a run ended by a storage error the committed token is still the one the
\* failed page was requested with and no row of the batch is committed.
C4_TokenCommittedWithBatch ==
    /\ (b.pc \in {"loop", "final"} /\ BackfillBatchDone /\ ~b.dry_run
           /\ Truthy(hist.batch.next_page_token)
           /\ db.sync_state.backfill_page_token = hist.batch.next_page_token)
          => BatchIds \subseteq StoredIds(db)
    /\ (b.pc \in {"loop", "final"} /\ ~b.dry_run) => conn = db
    /\ (b.pc = "idle" /\ f.pc = "idle") => conn = db
    /\ (b.pc = "idle" /\ b.result.raised = "StorageError")
          => /\ db.sync_state.backfill_page_token = hist.req.page_token
             /\ hist.failed \cap StoredIds(db) = {}
    /\ (f.pc = "idle" /\ f.result.raised # "none")
          => /\ RowCount(db) = hist.start_rows
             /\ hist.failed \cap StoredIds(db) = {}
             /\ db.sync_state.last_fetch_at # now

C4_Witness ==
    /\ b.pc = "idle" /\ b.result.raised = "StorageError" /\ b.result.batches >= 1
    /\ hist.failed # {}
    /\ db.sync_state.backfill_page_token # Null

\* C5: a rate limited backfill request makes the loop sleep retry_after seconds and
\* leaves the committed and the connection's rows, token and watermarks, the fetched
\* count and the page token as they were; the request that follows it carries the
\* same page token and limit.
RateLimitedStep ==
    /\ hist' # hist
    /\ hist'.req.by = "backfill"
    /\ hist'.req.outcome = "RateLimitError"

C5_RateLimitRetriesSamePage ==
    /\ [](hist.req.by = "backfill" /\ hist.prev.outcome = "RateLimitError"
            => /\ hist.req.page_token = hist.prev.page_token
               /\ hist.req.limit = hist.prev.limit)
    /\ [][RateLimitedStep
            => /\ db' = db /\ conn' = conn
               /\ b'.pc = "loop"
               /\ b'.slept = hist'.req.retry_after
               /\ b'.total_fetched = b.total_fetched
               /\ b'.total_new = b.total_new
               /\ b'.page_token = b.page_token]_vars

C5_Witness ==
    /\ hist.req.by = "backfill" /\ hist.req.outcome = "page"
    /\ hist.prev.outcome = "RateLimitError"
    /\ hist.req.page_token # Null
    /\ b.slept = 30

\* C6: no run of backfill_messages or fetch_new_messages ends by a RateLimitError.
C6_RateLimitNeverPropagates ==
    /\ b.result.raised # "RateLimitError"
    /\ f.result.raised # "RateLimitError"

C6_Witness ==
    /\ b.pc = "idle" /\ b.result.raised = "none"
    /\ hist.prev.by = "backfill" /\ hist.prev.outcome = "RateLimitError"
    /\ b.result.batches >= 1

\* C7: when a page of a forward sync run holds an id that already has a row, the run
\* makes no further request, and (not in a dry run) it has inserted exactly the ids
\* of that page that had no row.
C7_FetchStopsAtKnownId ==
    (FetchBatchDone /\ hist.batch.previously # {})
        => /\ f.pc \in {"final", "idle"}
           /\ hist.req.n = hist.batch.n
           /\ hist.batch.new_ids = BatchIds \ hist.batch.previously
           /\ ~hist.batch.dry_run
                 => /\ hist.batch.rows_added = Cardinality(hist.batch.new_ids)
                    /\ f.pc = "final" => hist.batch.new_ids \subseteq StoredIds(conn)

\* the second page of the run is partly stored: e.g. id 1 stored, pages [4, 3] and [2, 1]
C7_Witness ==
    /\ FetchBatchDone /\ ~hist.batch.dry_run /\ f.pc = "final"
    /\ hist.batch.n = 2
    /\ hist.batch.previously # {} /\ hist.batch.new_ids # {}
    /\ StoredIds(conn) = source /\ Cardinality(source) = MaxId
    /\ f.total_new = 3

\* C8: after a non-dry-run forward sync run that inserted at least one message,
\* newest_message_id is at least the largest id the run inserted and last_fetch_at is
\* the time the run completed.
C8_FetchRecordsNewestSeen ==
    (f.pc = "idle" /\ f.result.raised = "none" /\ ~f.result.dry_run
        /\ f.result.total_new > 0)
        => /\ db.sync_state.last_fetch_at = now
           /\ db.sync_state.newest_message_id # Null
           /\ db.sync_state.newest_message_id >= hist.max_new

\* C9: no step other than reset_backfill raises the committed oldest_message_id,
\* lowers the committed newest_message_id or makes either null again; and a
\* watermark that was null when a batch updated it holds the batch's value
\* (for backfill the smallest and largest id of the batch, for the forward sync the
\* first id of its last page).
WatermarksKept ==
    LET old == db.sync_state
        new == db'.sync_state
    IN  /\ old.oldest_message_id # Null
           => (new.oldest_message_id # Null
               /\ new.oldest_message_id <= old.oldest_message_id)
        /\ old.newest_message_id # Null
           => (new.newest_message_id # Null
               /\ new.newest_message_id >= old.newest_message_id)

BackfillUpdated ==
    /\ b.pc \in {"loop", "final"} /\ BackfillBatchDone /\ ~b.dry_run
    /\ Truthy(hist.batch.next_page_token)

C10_BatchPersistsTokenAndWatermarks ==
    (b.pc \in {"loop", "final"} /\ BackfillBatchDone /\ ~b.dry_run)
        => /\ db.sync_state.backfill_page_token = hist.batch.next_page_token
           /\ db.sync_state.oldest_message_id # Null
           /\ db.sync_state.oldest_message_id <= SetMin(BatchIds)
           /\ db.sync_state.newest_message_id # Null
           /\ db.sync_state.newest_message_id >= SetMax(BatchIds)

\* C11: after a non-dry-run backfill run returned is_complete = true, on an empty page
\* or on a page that reported has_more = false, the committed backfill_page_token is
\* null.
C11_CompletionClearsToken ==
    (b.pc = "idle" /\ b.result.raised = "none" /\ ~b.result.dry_run
        /\ b.result.is_complete)
        => db.sync_state.backfill_page_token = Null

FatalFetchErrors == Exceptions \ {"RateLimitError"}

C13_FatalFetchErrorKeepsCommitted ==
    /\ [][(hist'.req # hist.req /\ hist'.req.outcome \in FatalFetchErrors)
            => /\ db' = db /\ conn' = db
               /\ hist'.req.by = "backfill"
                     => (b'.pc = "idle" /\ b'.result.raised = hist'.req.outcome)
               /\ hist'.req.by = "fetch"
                     => (f'.pc = "idle" /\ f'.result.raised = hist'.req.outcome)]_vars
    /\ [][(f.pc # "idle" /\ f'.pc # "idle") => db' = db]_vars
    /\ []((b.pc = "idle" /\ b.result.raised \in FatalFetchErrors /\ ~b.result.dry_run
             /\ b.result.batches > 0)
            => /\ BatchIds \subseteq StoredIds(db)
               /\ db.sync_state.backfill_page_token = hist.batch.next_page_token)
    /\ [][(b.result.raised \in FatalFetchErrors \/ f.result.raised \in FatalFetchErrors)
            => /\ b'.pc = "loop"
                     => /\ b'.page_token = db.sync_state.backfill_page_token
                        /\ conn' = db /\ db' = db
               /\ f'.pc = "loop" => (conn' = db /\ db' = db)]_vars

\* a backfill run that had committed a batch is ended by an API error
C13_Witness ==
    /\ b.pc = "idle" /\ b.result.raised = "APIError" /\ ~b.result.dry_run
    /\ hist.req.outcome = "APIError" /\ hist.req.n > hist.batch.n
    /\ b.result.batches >= 1 /\ hist.batch.inserted > 0
    /\ db.sync_state.backfill_page_token # Null
    /\ db.sync_state.backfill_page_token = hist.req.page_token

\* C14: no step changes or removes a committed message row, and no id ever has a
\* second row, whether the runs follow each other or overlap and whether or not the
\* source has edited the record since it was stored.
RowsKept ==
    \A r \in BagToSet(db.messages) : CopiesIn(r, db'.messages) = CopiesIn(r, db.messages)

C14_StoredMessageNeverOverwritten ==
    /\ [][RowsKept]_vars
    /\ [](OneRowPerId(db) /\ OneRowPerId(Seen(db, race.staged)))

\* an INSERT brought the edited record of an id whose row was stored before the edit;
\* the row still holds what was posted
C14_Witness ==
    \E m \in race.skipped :
        /\ m.subject = "edited" /\ m.id \in edited
        /\ CopiesIn([id |-> m.id, subject |-> "posted"], db.messages) = 1

\* C15: every batch of backfill and of the forward sync (dry run or not) adds to the
\* run's count of new messages exactly the number of ids of the page that had no row
\* when the batch was processed.
ResponseIds(response) == {response.data[i].id : i \in 1..Len(response.data)}

C15_CountsExactlyTheNewIds ==
    /\ [][(b.pc = "page" /\ b.response.data # <<>> /\ b'.pc \in {"loop", "final"})
            => b'.total_new - b.total_new
                  = Cardinality(ResponseIds(b.response) \ StoredIds(conn))]_vars
    /\ [][(f.pc = "page" /\ f.response.data # <<>> /\ f'.pc \in {"loop", "final"})
            => f'.total_new - f.total_new
                  = Cardinality(ResponseIds(f.response) \ StoredIds(conn))]_vars

\* a backfill batch of two ids, one stored by an earlier forward sync, one new
C15_Witness ==
    /\ BackfillBatchDone /\ b.pc \in {"loop", "final"}
    /\ Len(hist.batch.ids) = 2
    /\ Cardinality(hist.batch.previously) = 1
    /\ b.total_new = 1 /\ b.batches = 1

\* C16: when a forward sync run and a backfill run overlap, what is committed holds one
\* message row per id and no hashtag or attachment row twice.
NoRepeatedChildRows(view) ==
    /\ \A r \in BagToSet(view.hashtags) : CopiesIn(r, view.hashtags) = 1
    /\ \A r \in BagToSet(view.attachments) : CopiesIn(r, view.attachments) = 1

C16_RaceNeitherDuplicatesNorFails == OneRowPerId(db) /\ NoRepeatedChildRows(db)

\* C17: in what is committed and in what a running connection sees, every hashtag and
\* attachment row belongs to a stored message, and every stored message has each
\* hashtag and each attachment of the record it was ingested from (as posted, or as
\* edited when the edit came first) exactly once, whatever the source serves later.
IngestedRecord(row) ==
    IF row.subject = "edited" THEN Edited(RawRecord(row.id)) ELSE RawRecord(row.id)

ChildRowsMatch(view) ==
    /\ \A h \in BagToSet(view.hashtags) : h.message_id \in StoredIds(view)
    /\ \A a \in BagToSet(view.attachments) : a.message_id \in StoredIds(view)
    /\ \A r \in BagToSet(view.messages) :
          LET tags == OrEmpty(IngestedRecord(r).hashtags)
              files == OrEmpty(IngestedRecord(r).attachments)
          IN  /\ \A h \in BagToSet(view.hashtags) :
                    h.message_id = r.id
                       => /\ h.name \in {t.name : t \in Range(tags)}
                          /\ CopiesIn(h, view.hashtags)
                                = Cardinality({i \in 1..Len(tags) : tags[i].name = h.name})
              /\ \A i \in 1..Len(tags) :
                    BagIn([message_id |-> r.id, name |-> tags[i].name,
                           color_hex |-> tags[i].color], view.hashtags)
              /\ \A a \in BagToSet(view.attachments) :
                    a.message_id = r.id
                       => /\ a.attachment_index \in 0..(Len(files) - 1)
                          /\ a.filename = files[a.attachment_index + 1].filename
                          /\ CopiesIn(a, view.attachments) = 1
              /\ \A i \in 1..Len(files) :
                    BagIn([message_id |-> r.id, attachment_index |-> i - 1,
                           filename |-> files[i].filename], view.attachments)

C17_ChildRowsOnlyWithParent == ChildRowsMatch(db) /\ ChildRowsMatch(conn)

\* message 3 (a hashtag and an attachment) was stored as posted, then edited at the
\* source, and a later backfill run met it again
C17_Witness ==
    /\ 3 \in edited /\ now = 2 /\ b.pc = "idle" /\ b.result.batches >= 1
    /\ 3 \in hist.batch.previously
    /\ BagIn([id |-> 3, subject |-> "posted"], db.messages)
    /\ CopiesIn([message_id |-> 3, name |-> "forsale", color_hex |-> "red"],
                db.hashtags) = 1
    /\ CopiesIn([message_id |-> 3, attachment_index |-> 0, filename |-> "photo.jpg"],
                db.attachments) = 1

\* C18: once a page request of a forward sync run was rate limited, the run makes no
\* further request and is past its loop; its count is the number of rows it has
\* inserted on the pages before; and when it has returned, it raised nothing, returned
\* that count, and (not a dry run) those rows are committed.
FetchRateLimited == hist.req.by = "fetch" /\ hist.req.outcome = "RateLimitError"

C18_FetchRateLimitedReturnsCount ==
    FetchRateLimited
        => /\ f.pc \in {"final", "idle"}
           /\ hist.batch.n < hist.req.n
           /\ f.pc = "final"
                 => /\ f.batches = hist.req.n - 1
                    /\ ~f.dry_run => f.total_new = RowCount(conn) - hist.start_rows
           /\ f.pc = "idle"
                 => /\ f.result.raised = "none"
                    /\ f.result.batches = hist.req.n - 1
                    /\ ~f.result.dry_run
                          => /\ f.result.total_new = RowCount(db) - hist.start_rows
                             /\ conn = db

\* the second request of the run was rate limited; the first page's message is committed
C18_Witness ==
    /\ FetchRateLimited /\ hist.req.n = 2
    /\ f.pc = "idle" /\ ~f.result.dry_run /\ f.result.total_new = 1
    /\ RowCount(db) = hist.start_rows + 1
    /\ hist.batch.new_ids \subseteq StoredIds(db)
    /\ Cardinality(source) > RowCount(db)

\* the last request of the loop has not been processed yet
BackfillRequested ==
    /\ hist.req.by = "backfill" /\ hist.req.n > hist.batch.n
    /\ b.pc \in {"page", "loop"}

FetchRequested == hist.req.by = "fetch" /\ hist.req.n > hist.batch.n /\ f.pc = "page"

CapBoundsPageRequests ==
    /\ (BackfillRequested /\ b.max_messages # Null)
          => /\ hist.req.limit = Min2(b.batch_size, b.max_messages - b.total_fetched)
             /\ b.total_fetched < b.max_messages
    /\ (BackfillRequested /\ b.max_messages = Null) => hist.req.limit = b.batch_size
    /\ FetchRequested
          => /\ hist.req.limit = Min2(f.batch_size, f.max_messages - f.total_fetched)
             /\ f.total_fetched < f.max_messages
    /\ (b.pc # "idle" /\ b.max_messages # Null) => b.total_fetched <= b.max_messages
    /\ f.pc # "idle" => f.total_fetched <= f.max_messages

\* C19: every page request of the two loops asks for min(batch_size, max_messages -
\* fetched so far) records (backfill: when max_messages is set) and is made only while
\* the run has fetched less than max_messages, so a run never fetches more than
\* max_messages; before its loop a backfill run makes one more request, of limit 1 for
\* the total count, whatever the cap.
C19_CapBoundsLoopRequests ==
    /\ CapBoundsPageRequests
    /\ b.pc # "idle" => hist.count_requests = 1
    /\ f.pc # "idle" => hist.count_requests = 0

\* the cap of 3 leaves one message for the second request of a run with batch_size 2
C19_Witness ==
    /\ b.pc = "page" /\ b.max_messages = 3 /\ b.batch_size = 2
    /\ b.total_fetched = 2 /\ hist.req.n = 2 /\ hist.req.limit = 1
    /\ Len(b.response.data) = 1 /\ b.response.has_more
    /\ hist.count_requests = 1

\* C19 as stated: the same, and a run whose cap is reached makes no request at all.
C19_NoRequestOnceCapReached ==
    /\ CapBoundsPageRequests
    /\ (b.pc # "idle" /\ b.max_messages # Null /\ b.total_fetched >= b.max_messages
           /\ b.total_fetched = 0)
          => hist.req.n + hist.count_requests = 0

\* C20: no step of a dry run of backfill_messages or fetch_new_messages, from its start
\* to its return or exception, changes the committed messages, hashtags, attachments
\* or sync_state row, or stages a write on its connection.
DryRunStep ==
    \/ b.pc # "idle" /\ b.dry_run
    \/ f.pc # "idle" /\ f.dry_run
    \/ b.pc = "idle" /\ b'.pc # "idle" /\ b'.dry_run
    \/ f.pc = "idle" /\ f'.pc # "idle" /\ f'.dry_run

C20_DryRunChangesNothing ==
    [][DryRunStep => (db' = db /\ conn' = db)]_vars

\* a dry run resumed from a stored token, counted new messages and completed; rows and
\* token are as the earlier run left them
C20_Witness ==
    /\ b.pc = "idle" /\ b.result.dry_run /\ b.result.raised = "none"
    /\ b.result.is_complete /\ b.result.total_new > 0
    /\ now = 2 /\ RowCount(db) = hist.start_rows /\ RowCount(db) > 0
    /\ db.sync_state.backfill_page_token # Null
    /\ hist.batch.new_ids # {} /\ hist.batch.new_ids \cap StoredIds(db) = {}

\* C21: when a run that is not a dry run has returned, the value it returned (the count
\* of fetch_new_messages, the first component of backfill_messages' result) is the
\* number of message rows committed since the run began.
BackfillReturned ==
    b.pc = "idle" /\ hist.count_requests = 1 /\ b.result.raised = "none"

FetchReturned == f.pc = "idle" /\ hist.req.by = "fetch" /\ f.result.raised = "none"

C21_ReturnValueIsRowsAdded ==
    /\ (BackfillReturned /\ ~b.result.dry_run)
          => b.result.total_new = RowCount(db) - hist.start_rows
    /\ (FetchReturned /\ ~f.result.dry_run)
          => f.result.total_new = RowCount(db) - hist.start_rows

\* a backfill run over stored rows returned 1: its last page held one stored id and one
\* new one
C21_Witness ==
    /\ BackfillReturned /\ ~b.result.dry_run /\ b.result.total_new = 1
    /\ hist.start_rows > 0 /\ RowCount(db) = hist.start_rows + 1
    /\ Len(hist.batch.ids) = 2 /\ Cardinality(hist.batch.previously) = 1

\* the server's last answer to the call was a 429
Answered429 == client.pc = "done" /\ client.answer.status_code = 429

C23_ErrorStatusRaisesAPIError ==
    (client.pc = "done" /\ client.answer.status_code >= 400
        /\ client.answer.status_code # 429)
        => /\ client.outcome.kind = "APIError"
           /\ client.outcome.status_code = client.answer.status_code
           /\ client.outcome.message = client.answer.text

\* C24: the request of every call carries a limit of at most 100 (the caller's limit
\* when that is smaller), whatever limit the caller passed.
C24_LimitClampedTo100 ==
    client.pc # "idle"
        => /\ client.params.limit <= 100
           /\ client.limit <= 100 => client.params.limit = client.limit

\* the caller asked for 250 messages; the request went out with limit 100 and a page
\* came back
C24_Witness ==
    /\ client.pc = "done" /\ client.limit = 250 /\ client.params.limit = 100
    /\ client.outcome.kind = "page"

\* C25: reset_backfill sets the committed backfill_page_token and oldest_message_id to
\* null and leaves every message, hashtag and attachment row, newest_message_id and
\* last_fetch_at as they were; a backfill run begins with the committed token, so the
\* run started after a reset begins with none.
C25_ResetClearsOnlyBackfillState ==
    /\ [][ResetBackfill
            => /\ db'.sync_state.backfill_page_token = Null
               /\ db'.sync_state.oldest_message_id = Null
               /\ db'.sync_state.newest_message_id = db.sync_state.newest_message_id
               /\ db'.sync_state.last_fetch_at = db.sync_state.last_fetch_at
               /\ db'.messages = db.messages
               /\ db'.hashtags = db.hashtags
               /\ db'.attachments = db.attachments
               /\ conn' = db']_vars
    /\ [][(b.pc = "idle" /\ b'.pc = "loop")
            => b'.page_token = db.sync_state.backfill_page_token]_vars

\* a backfill run stored rows, a token and both watermarks; after the reset the rows and
\* newest_message_id are still there and the next run has begun without a token
C25_Witness ==
    /\ b.pc = "loop" /\ now = 2 /\ hist.req.n = 0 /\ b.page_token = Null
    /\ RowCount(db) > 0 /\ RowCount(db) < Cardinality(source)
    /\ db.sync_state.last_fetch_at = Null
    /\ db.sync_state.newest_message_id # Null
    /\ db.sync_state.oldest_message_id = Null
    /\ db.sync_state.backfill_page_token = Null

\* C26: get_backfill_status reports is_complete = true exactly when the committed
\* backfill_page_token is null, and reports no token whenever it reports completion.
C26_StatusCompleteIffNoToken ==
    /\ get_backfill_status(db).is_complete <=> db.sync_state.backfill_page_token = Null
    /\ get_backfill_status(db).is_complete
          => get_backfill_status(db).backfill_page_token = Null

(***************************************************************************)
(* The shapes of a sender name, stated on the name itself.                 *)
(***************************************************************************)
Letters == {"a"}

Only(s, chars) == \A k \in 1..Len(s) : s[k] \in chars

\* local@domain: one "@", something on both sides of it, no blank and no bracket
AddressLike(e) ==
    /\ Only(e, Letters \cup {".", "@"})
    /\ Cardinality({k \in 1..Len(e) : e[k] = "@"}) = 1
    /\ e[1] # "@" /\ e[Len(e)] # "@"

\* an address as the tests have it: local@domain.tld, labels of letters
EmailShaped(e) ==
    \E k \in 2..Len(e), m \in 1..Len(e) :
        /\ e[k] = "@" /\ m > k + 1 /\ e[m] = "." /\ m < Len(e)
        /\ Only(SubSeq(e, 1, k - 1), Letters \cup {"."})
        /\ e[1] # "." /\ e[k - 1] # "."
        /\ Only(SubSeq(e, k + 1, m - 1), Letters)
        /\ Only(SubSeq(e, m + 1, Len(e)), Letters)

\* some part of s is shaped like an address: the shortest such part is a letter, "@",
\* letters, ".", a letter
HasEmailShapedPart(s) ==
    \E k \in 2..Len(s) :
        /\ s[k] = "@" /\ s[k - 1] \in Letters
        /\ \E m \in (k + 2)..(Len(s) - 1) :
              /\ s[m] = "." /\ s[m + 1] \in Letters
              /\ \A n \in (k + 1)..(m - 1) : s[n] \in Letters

\* an opening bracket with a closing one after it
Bracketed(s) == \E i \in 1..Len(s), j \in 1..Len(s) : i < j /\ s[i] = "<" /\ s[j] = ">"

EmailCalled == call.fn = "extract_email"

\* What the pattern of extract_email does give: the part between the brackets for
\* display <local@domain>, and None for None, for the empty and the all-blank name, for a
\* name without "@", and for a name without brackets.
ExtractEmailMatchesBracketPattern ==
    EmailCalled
        => /\ call.name.is_null => call.result = NullList
           /\ ~call.name.is_null
                 => LET s == call.name.items
                    IN  /\ \A i \in 1..Len(s) :
                              (/\ s[i] = "<" /\ s[Len(s)] = ">" /\ i + 1 < Len(s)
                               /\ Only(SubSeq(s, 1, i - 1), Letters \cup {".", " "})
                               /\ AddressLike(SubSeq(s, i + 1, Len(s) - 1)))
                                 => call.result = List(SubSeq(s, i + 1, Len(s) - 1))
                        /\ (Only(s, {" "}) \/ Only(s, NameChars \ {"@"}) \/ ~Bracketed(s))
                              => call.result = NullList

\* C27: for a name of the form display <address> extract_email returns the address between
\* the brackets; it returns None for None, for the empty and the all-blank name, for a
\* name without "@", and for every name that has no part shaped like an email address.
C27_ExtractEmailBracketForm ==
    EmailCalled
        => /\ call.name.is_null => call.result = NullList
           /\ ~call.name.is_null
                 => LET s == call.name.items
                    IN  /\ \A i \in 1..Len(s) :
                              (/\ s[i] = "<" /\ s[Len(s)] = ">" /\ i + 1 < Len(s)
                               /\ Only(SubSeq(s, 1, i - 1), Letters \cup {".", " "})
                               /\ EmailShaped(SubSeq(s, i + 1, Len(s) - 1)))
                                 => call.result = List(SubSeq(s, i + 1, Len(s) - 1))
                        /\ (Only(s, {" "}) \/ Only(s, NameChars \ {"@"}))
                              => call.result = NullList
                        /\ ~HasEmailShapedPart(s) => call.result = NullList

\* C28: for a name that is an email address and nothing else but blanks before and
\* after it, extract_email returns the address without the blanks.
C28_ExtractEmailBareAddress ==
    (EmailCalled /\ ~call.name.is_null)
        => LET s == call.name.items
           IN  \A i \in 1..Len(s), j \in 1..Len(s) :
                  (/\ i <= j /\ EmailShaped(SubSeq(s, i, j))
                   /\ Only(SubSeq(s, 1, i - 1), {" "})
                   /\ Only(SubSeq(s, j + 1, Len(s)), {" "}))
                     => call.result = List(SubSeq(s, i, j))

(***************************************************************************)
(* The three price notations as sets of token sequences, and the first     *)
(* occurrence of a notation in a text.                                     *)
(***************************************************************************)
\* "$" and an amount, possibly with a point and two digits
InCurrency(w) ==
    /\ Len(w) >= 2 /\ w[1] = "$"
    /\ \/ Only(SubSeq(w, 2, Len(w)), AmountTokens)
       \/ /\ Len(w) >= 5 /\ Only(SubSeq(w, 2, Len(w) - 3), AmountTokens)
          /\ w[Len(w) - 2] = "."
          /\ w[Len(w) - 1] \in DigitTokens /\ w[Len(w)] \in DigitTokens

\* "asking" in any case, blanks, possibly "$", and an amount
InAsking(w) ==
    /\ Len(w) >= 2 /\ w[1] \in {"asking", "Asking"}
    /\ \E a \in 2..Len(w) :
          /\ Only(SubSeq(w, a, Len(w)), AmountTokens)
          /\ \/ Only(SubSeq(w, 2, a - 1), SpaceTokens)
             \/ a >= 3 /\ w[a - 1] = "$" /\ Only(SubSeq(w, 2, a - 2), SpaceTokens)

\* an amount, blanks, and "dollars" or "obo" in any case
InAmountWord(w) ==
    /\ Len(w) >= 2 /\ w[Len(w)] \in {"dollars", "obo", "OBO"}
    /\ \E a \in 1..(Len(w) - 1) :
          /\ Only(SubSeq(w, 1, a), AmountTokens)
          /\ Only(SubSeq(w, a + 1, Len(w) - 1), SpaceTokens)

InNotation(k, w) ==
    CASE k = 1 -> InCurrency(w)
      [] k = 2 -> InAsking(w)
      [] k = 3 -> InAmountWord(w)

Occurrences(k, text) ==
    {o \in (1..Len(text)) \X (1..Len(text)) :
        o[1] <= o[2] /\ InNotation(k, SubSeq(text, o[1], o[2]))}

\* the occurrence that starts first, taken as far as it goes
FirstOccurrence(k, text) ==
    LET start == SetMin({o[1] : o \in Occurrences(k, text)})
        end == SetMax({o[2] : o \in {x \in Occurrences(k, text) : x[1] = start}})
    IN  SubSeq(text, start, end)

PriceCalled == call.fn = "extract_price"

\* C29: over the text subject + " " + body, extract_price returns the first occurrence of
\* the highest-priority notation that occurs anywhere in the text (currency sign and
\* amount, then 'asking' and amount, then amount and 'dollars'/'obo'), wherever notations
\* of lower priority occur; it returns None when none occurs, and when both inputs are
\* None or empty.
C29_ExtractPricePriority ==
    PriceCalled
        => LET text == OrEmpty(call.subject) \o <<" ">> \o OrEmpty(call.body)
               occurring == {k \in 1..3 : Occurrences(k, text) # {}}
           IN  /\ occurring = {} => call.result = NullList
               /\ occurring # {}
                     => call.result = List(FirstOccurrence(SetMin(occurring), text))
               /\ (OrEmpty(call.subject) = <<>> /\ OrEmpty(call.body) = <<>>)
                     => call.result = NullList

\* 'Asking $5': the 'asking' notation starts first, the currency notation is returned
C29_Witness ==
    /\ PriceCalled
    /\ call.subject = List(<<"Asking", " ", "$", "5">>) /\ call.body = NullList
    /\ Occurrences(2, <<"Asking", " ", "$", "5", " ">>) # {}
    /\ call.result = List(<<"$", "5">>)

ConvertCalled == call.fn = "to_message"

\* C30: to_message turns a null hashtag list and a null attachment list into an empty
\* list, keeps the hashtags and the attachments of a record in the order of the source,
\* and gives the attachments the indexes 0..n-1 in that order, whatever index the source
\* gave them.
C30_ToMessageReindexes ==
    ConvertCalled
        => LET raw == call.raw
               m == call.result
           IN  /\ raw.hashtags.is_null => m.hashtags = <<>>
               /\ raw.attachments.is_null => m.attachments = <<>>
               /\ ~raw.hashtags.is_null
                     => /\ Len(m.hashtags) = Len(raw.hashtags.items)
                        /\ \A i \in 1..Len(m.hashtags) :
                              /\ m.hashtags[i].name = raw.hashtags.items[i].name
                              /\ m.hashtags[i].color_hex = raw.hashtags.items[i].color
               /\ ~raw.attachments.is_null
                     => /\ Len(m.attachments) = Len(raw.attachments.items)
                        /\ \A i \in 1..Len(m.attachments) :
                              /\ m.attachments[i].attachment_index = i - 1
                              /\ m.attachments[i].filename = raw.attachments.items[i].filename

\* two attachments the source both numbered 5, and no hashtag list, were converted
C30_Witness ==
    /\ ConvertCalled
    /\ call.raw.hashtags = NullList
    /\ call.raw.attachments = List(<<[filename |-> "a.jpg", attachment_index |-> 5],
                                      [filename |-> "b.jpg", attachment_index |-> 5]>>)
    /\ call.result.hashtags = <<>>
    /\ call.result.attachments = <<[attachment_index |-> 0, filename |-> "a.jpg"],
                                    [attachment_index |-> 1, filename |-> "b.jpg"]>>

(***************************************************************************)
(* GET /messages and GET /hashtags, stated on the stored rows.             *)
(***************************************************************************)
MessagesAnswered == api.endpoint = "messages" /\ api.status_code = 200

\* the hashtags a parameter names: the words that stand alone, blanks aside, between two
\* commas or an end of the text, in lower case
NamedHashtags(text) ==
    {Lower(text[k]) : k \in {x \in 1..Len(text) :
        /\ text[x] \notin {",", " "}
        /\ \A m \in 1..Len(text) :
              (m # x /\ \A n \in Min2(m, x)..(IF m < x THEN x ELSE m) : text[n] # ",")
                 => text[m] = " "}}

\* some name, of one word or more, stands in the parameter
NamesSomething(text) == \E k \in 1..Len(text) : text[k] \notin {",", " "}

\* the ids of the stored messages that are older than the cursor, created after since,
\* found by the search and, when filtered is true, carry one of the named hashtags
Wanted(q, filtered) ==
    {m.id : m \in {r \in BagToSet(db.messages) :
        /\ (~q.cursor.is_null /\ q.cursor.items # <<>>) => r.id < int(q.cursor.items)
        /\ q.since # Null => r.id > q.since
        /\ (~q.search.is_null /\ q.search.items # <<>>) => r.subject = q.search.items[1]
        /\ filtered
              => \E h \in BagToSet(db.hashtags) :
                    /\ h.message_id = r.id
                    /\ Lower(h.name) \in NamedHashtags(q.hashtags.items)}}

\* the page of a set of ids: the largest limit of them, largest first
Page(ids, limit) == Take(SortDesc(ids), limit)

\* C31 (as stated): with a hashtags parameter that is neither missing nor empty, a page of
\* GET /messages holds the newest messages that carry at least one of the comma-separated
\* hashtags, compared without regard to case or surrounding whitespace, each once; with
\* a missing or empty parameter it holds the newest messages whatever their hashtags.
C31_HashtagFilterUnlessEmpty ==
    MessagesAnswered
        => SummaryIds(api.messages)
              = Page(Wanted(api.request,
                            /\ ~api.request.hashtags.is_null
                            /\ api.request.hashtags.items # <<>>),
                     api.request.limit)

\* C31 (amended): the filter applies when the parameter names a hashtag; a parameter
\* that is missing, empty or made of commas and whitespace only applies no filter.
C31_HashtagFilterWhenNamed ==
    MessagesAnswered
        => SummaryIds(api.messages)
              = Page(Wanted(api.request,
                            ~api.request.hashtags.is_null
                               /\ NamesSomething(api.request.hashtags.items)),
                     api.request.limit)

\* "ForSale,iso" was asked for; message 3 carries both names and is listed once, before
\* message 1, and message 2, stored without hashtags, is left out
C31_Witness ==
    /\ MessagesAnswered
    /\ api.request.hashtags = List(<<"ForSale", ",", "iso">>)
    /\ ~Given(api.request.cursor) /\ api.request.limit = 2
    /\ StoredIds(db) = {1, 2, 3}
    /\ BagIn([message_id |-> 3, name |-> "forsale", color_hex |-> "red"], db.hashtags)
    /\ BagIn([message_id |-> 3, name |-> "iso", color_hex |-> "green"], db.hashtags)
    /\ SummaryIds(api.messages) = <<3, 1>>

\* the ids of the stored messages that satisfy the cursor and the filters of a query
Satisfying(q) == Wanted(q, ~q.hashtags.is_null /\ NamesSomething(q.hashtags.items))

\* C32: GET /messages returns at most limit messages, ids descending; has_more is true
\* exactly when more than limit stored messages satisfy the cursor and the filters;
\* next_cursor is the id of the last returned message when has_more is true and null
\* otherwise.
C32_PageLimitHasMoreCursor ==
    MessagesAnswered
        => /\ Len(api.messages) <= api.request.limit
           /\ \A i, j \in 1..Len(api.messages) :
                 i < j => api.messages[i].id > api.messages[j].id
           /\ api.has_more <=> Cardinality(Satisfying(api.request)) > api.request.limit
           /\ api.has_more
                 => /\ ~api.next_cursor.is_null /\ IsDecimal(api.next_cursor.items)
                    /\ int(api.next_cursor.items) = api.messages[Len(api.messages)].id
           /\ ~api.has_more => api.next_cursor = NullList

\* three stored messages, limit 2, no filter: messages 3 and 2, has_more, cursor "2"
C32_Witness ==
    /\ MessagesAnswered /\ api.request.limit = 2 /\ api.request.hashtags = NullList
    /\ ~Given(api.request.cursor) /\ StoredIds(db) = {1, 2, 3}
    /\ SummaryIds(api.messages) = <<3, 2>>
    /\ api.has_more /\ api.next_cursor = List(<<"2">>)

HashtagsAnswered == api.endpoint = "hashtags" /\ api.status_code = 200

\* the stored hashtag rows that carry a name
RowsNamed(name) ==
    BagCardinality([h \in {x \in BagToSet(db.hashtags) : x.name = name}
                       |-> CopiesIn(h, db.hashtags)])

\* C33: GET /hashtags lists every distinct hashtag name once, with count equal to the
\* number of stored hashtag rows carrying that name, the counts in descending order, and
\* total_unique equal to the number of distinct names.
C33_HashtagsListedOncePerName ==
    HashtagsAnswered
        => /\ \A name \in {h.name : h \in BagToSet(db.hashtags)} :
                 Cardinality({i \in 1..Len(api.hashtags) : api.hashtags[i].name = name}) = 1
           /\ \A i \in 1..Len(api.hashtags) :
                 api.hashtags[i].count = RowsNamed(api.hashtags[i].name)
           /\ \A i, j \in 1..Len(api.hashtags) :
                 i < j => api.hashtags[i].count >= api.hashtags[j].count
           /\ api.total_unique = Cardinality({h.name : h \in BagToSet(db.hashtags)})

\* the query a walk through the pages began with
FirstQuery == [api.request EXCEPT !.cursor = NullList]

\* C39: over an unchanged store, the pages a client gets by starting without a cursor
\* and passing on next_cursor hold, as far as the client has come, the newest messages
\* that match the filters, each once, ids strictly descending, none skipped; when
\* has_more is false they hold every matching message.
C39_CursorWalkIsExact ==
    (MessagesAnswered /\ api.from_start)
        => /\ \A i, j \in 1..Len(api.walk) : i < j => api.walk[i] > api.walk[j]
           /\ api.walk = Page(Satisfying(FirstQuery), Len(api.walk))
           /\ api.has_more => Len(api.walk) < Cardinality(Satisfying(FirstQuery))
           /\ ~api.has_more => Range(api.walk) = Satisfying(FirstQuery)

\* "ForSale,iso" with limit 1: message 3, which carries both names, came on the first
\* page, message 1 on the second and last one; message 2 does not match
C39_Witness ==
    /\ MessagesAnswered /\ api.from_start /\ ~api.has_more
    /\ api.request.hashtags = List(<<"ForSale", ",", "iso">>)
    /\ api.request.limit = 1 /\ api.request.cursor = List(<<"3">>)
    /\ BagIn([message_id |-> 3, name |-> "forsale", color_hex |-> "red"], db.hashtags)
    /\ BagIn([message_id |-> 3, name |-> "iso", color_hex |-> "green"], db.hashtags)
    /\ StoredIds(db) = {1, 2, 3}
    /\ api.walk = <<3, 1>>

\* a backfill run that began without a token, over a source that does not change and
\* whose messages all had a row already, has left its loop; it has no cap and was not
\* asked to shut down
RewalkEnded ==
    /\ b.pc = "final" /\ hist.first_token = Null
    /\ static /\ hist.start_rows = Cardinality(source)
    /\ b.max_messages = Null /\ ~_shutdown_requested

\* C35: a backfill batch whose page holds ids that already had a row inserts the other
\* ids of the page only; when the page reported has_more, the run has committed the
\* page's next_page_token and goes on from it; and a run started without a token (as
\* after reset_backfill) over a fully ingested source fetches every message, inserts
\* none and completes.
C35_BackfillWalksPastStoredIds ==
    /\ (BackfillBatchDone /\ hist.batch.previously # {})
          => /\ hist.batch.new_ids = BatchIds \ hist.batch.previously
             /\ hist.batch.inserted = Cardinality(BatchIds \ hist.batch.previously)
             /\ hist.batch.rows_added = IF hist.batch.dry_run THEN 0 ELSE hist.batch.inserted
    /\ (BackfillBatchDone /\ hist.batch.previously # {} /\ hist.batch.has_more
           /\ b.pc \in {"loop", "final"} /\ hist.req.n = hist.batch.n)
          => /\ b.page_token = hist.batch.next_page_token
             /\ ~b.dry_run => db.sync_state.backfill_page_token = hist.batch.next_page_token
             /\ b.pc = "final" => BackfillStops(b, _shutdown_requested)
    /\ RewalkEnded
          => /\ b.total_new = 0 /\ b.is_complete
             /\ b.total_fetched = Cardinality(source)
             /\ StoredIds(db) = source

\* the second run went through all three stored messages in two pages and added none
C35_Witness ==
    /\ RewalkEnded /\ now = 2 /\ ~b.dry_run
    /\ source = {1, 2, 3} /\ b.batches = 2 /\ b.total_fetched = 3 /\ b.total_new = 0
    /\ hist.batch.previously = BatchIds

\* the bookmarks of backfill in a view of sync_state
BackfillBookmarks(view) ==
    <<view.sync_state.backfill_page_token, view.sync_state.oldest_message_id>>

\* a step taken by a forward sync run, from its start to its return
FetchRunStep == f.pc # "idle" \/ f'.pc # "idle"

\* a step taken by a backfill run, from its start to its return
BackfillRunStep == b.pc # "idle" \/ b'.pc # "idle"

C34_ForwardSyncCatchesUp == <>[](StoredIds(db) = source)

\* a forward sync run is under way
FetchRunning == f.pc # "idle"

\* C36: every forward sync run returns; a pass through the loop that does not leave
\* it strictly increases total_fetched, which never exceeds max_messages, and a run
\* makes at most max_messages page requests.
C36_FetchRunTerminates ==
    /\ [](FetchRunning
            => /\ f.total_fetched <= f.max_messages
               /\ hist.req.n <= f.max_messages
               /\ hist.req.n <= f.total_fetched + 1)
    /\ [][/\ (f.pc = "page" /\ f'.pc = "loop") => f'.total_fetched > f.total_fetched
          /\ (f.pc = "page" /\ f'.pc # "page") => f'.pc \in {"loop", "final"}
          /\ (f.pc = "loop" /\ f'.pc # "loop") => f'.pc \in {"page", "final"}
          /\ (f.pc = "final" /\ f'.pc # "final") => f'.pc = "idle"]_vars
    /\ (FetchRunning ~> ~FetchRunning)

\* a run with cap 4 and pages of one message made its fourth request and met the cap
C36_Witness ==
    /\ f.pc = "final" /\ f.max_messages = 4 /\ f.batch_size = 1
    /\ hist.req.n = 4 /\ f.total_fetched = 4 /\ FetchCapReached(f)

\* a backfill run is under way
BackfillRunning == b.pc # "idle"

\* the run has made its last request: the page was empty, or reported has_more = false
BackfillAtLastPage ==
    /\ hist.req.by = "backfill" /\ hist.req.outcome = "page"
    /\ \/ hist.batch.n < hist.req.n
       \/ hist.batch.by = "backfill" /\ ~hist.batch.has_more

\* C37: a backfill run over a source that does not change returns when rate limits
\* are bounded. A run without a cap that was not asked to shut down leaves the loop
\* only with is_complete = true, after the last page; a run with a cap never fetches
\* past it and makes no request once it is reached; and once shutdown is requested
\* the loop makes no further request, so the run returns whatever the source answers.
C37_BackfillRunReturns ==
    /\ [](/\ (b.pc = "final" /\ b.max_messages = Null /\ ~_shutdown_requested)
                => (b.is_complete /\ BackfillAtLastPage)
          /\ (BackfillRunning /\ b.max_messages # Null)
                => (/\ b.total_fetched <= b.max_messages
                    /\ (b.pc = "page" => b.total_fetched < b.max_messages)))
    /\ [][/\ (b.pc = "loop" /\ BackfillStops(b, _shutdown_requested) /\ b' # b)
               => (b'.pc = "final" /\ hist'.req = hist.req)
          /\ (b.pc = "final" /\ b' # b) => b'.pc = "idle"]_vars
    /\ (BackfillRunning ~> ~BackfillRunning)

\* a run without a cap walked the four messages in pages of one and completed after
\* a rate limit on the way
C37_Witness ==
    /\ b.pc = "final" /\ b.max_messages = Null /\ ~_shutdown_requested
    /\ b.is_complete /\ b.batch_size = 1 /\ b.total_fetched = 4 /\ b.rate_limits = 1

====
